---- MODULE Spec2Model ----
(***************************************************************************)
(* Tunnel lifecycle orchestration of htunnel: the TunnelManager            *)
(* (src/src/tunnel-manager.ts), the provider registry (providers/index),   *)
(* and the providers' start/stop bodies, as a state machine.               *)
(*                                                                         *)
(* JavaScript runs one task at a time: the code between two awaits is one  *)
(* atomic step.  Where a claim speaks about a point inside such a step     *)
(* (after the insert and before provider.start, after a provider's catch   *)
(* and before the manager's), the step is split and `running` names the    *)
(* call that holds the thread: no other call or event can act until it is  *)
(* released.  The states with running = 0 are the ones an HTTP handler     *)
(* (get, getAll, getStats) can observe.                                    *)
(*                                                                         *)
(* The repository holds two revisions of two provider modules: pinggy      *)
(* (SDK based and ssh based, both in unnamed/part_004) and cloudflare      *)
(* (src/src/providers/cloudflare.ts and unnamed/part_005).  `build` says   *)
(* which revision is linked: it is fixed when the module is first used     *)
(* and never changes afterwards.                                           *)
(***************************************************************************)
EXTENDS Integers, Sequences, FiniteSets, TLC

VARIABLES
    build,    \* which revision of the pinggy / cloudflare module is linked
    now,      \* Date.now(), in milliseconds
    objs,     \* the heap of TunnelInstance objects, in creation order
    tunnels,  \* TunnelManager.tunnels: Map<id, TunnelInstance> (id -> index in objs)
    procs,    \* child processes and SDK sessions ever started, in start order
    calls,    \* the calls made on the manager, each with its position and result
    running,  \* the call that holds the thread inside a synchronous section, or 0
    scan      \* a call of waitForUrl: its stream, buffer, timer and promise

vars == <<build, now, objs, tunnels, procs, calls, running, scan>>

----------------------------------------------------------------------------
(* Bounds of the model *)

\* create() calls
MaxTunnels == 2
\* calls on the manager, create() included
MaxCalls == 3
\* calls of provider.start (one per create, one per restart of a tracked id)
MaxStarts == 2
\* "error" events one localtunnel session emits
MaxSessionErrors == 1
\* the requests posted to the create routes
MaxPosts == 3
\* the calls of getProvider that are followed
MaxLookups == 2

\* the chunks without the awaited output that a process writes in all
MaxQuiet == 2

\* the create() calls whose config is followed
MaxConfigs == 2

\* the chunks the ssh process writes before its output ends
MaxSshChunks == 3

\* the starts whose log lines are compared
MaxLogged == 2

\* the ERR lines a cloudflared process writes while its tunnel is live
MaxErrLines == 2
\* the chunks of a stream given to waitForUrl, and the bytes of a chunk
MaxChunks == 2
MaxChunkLen == 2

(* Program constants *)

\* ngrok.ts: const maxAttempts = 10
maxAttempts == 10

----------------------------------------------------------------------------
(* Values *)

\* Math.random().toString(36).slice(2, 7): the suffixes the model draws from
RandomSuffixes == {"a", "b"}

\* an id no create() ever returned ("does-not-exist")
NoSuchId == <<-1, "none">>

NoToken == "undefined"

\* JavaScript values as far as a port field can hold them: a number num/den,
\* NaN, a string (its characters), a boolean (num 1 or 0), null or undefined
JsValue(type, num, den, str) == [type |-> type, num |-> num, den |-> den, str |-> str]
JsNumber(n) == JsValue("number", n, 1, << >>)
JsFraction(n, d) == JsValue("number", n, d, << >>)
JsString(chars) == JsValue("string", 0, 1, chars)
NaN == JsValue("NaN", 0, 1, << >>)

\* the requests create() is called with; "bogus" is a provider key that is not
\* registered (the form route casts the field without validating it)
Requests ==
    { [provider |-> "pinggy",      token |-> NoToken, cloudflareMode |-> "undefined", localPort |-> JsNumber(3000)],
      [provider |-> "cloudflare",  token |-> NoToken, cloudflareMode |-> "undefined", localPort |-> JsNumber(3000)],
      [provider |-> "cloudflare",  token |-> "tokA",  cloudflareMode |-> "undefined", localPort |-> JsNumber(3000)],
      [provider |-> "ngrok",       token |-> NoToken, cloudflareMode |-> "undefined", localPort |-> JsNumber(3000)],
      [provider |-> "localtunnel", token |-> NoToken, cloudflareMode |-> "undefined", localPort |-> JsNumber(3000)],
      [provider |-> "bogus",       token |-> NoToken, cloudflareMode |-> "undefined", localPort |-> JsNumber(3000)] }

\* what a promise settles with: an Error with its message (the errors of the
\* code and of the libraries carry one), a thrown value that is not an Error
\* (it has no message), or no error
Err(msg) == [isError |-> TRUE, settled |-> "rejected", message |-> msg]
NonError == [isError |-> FALSE, settled |-> "rejected", message |-> "undefined"]
NoErr == [isError |-> FALSE, settled |-> "resolved", message |-> "undefined"]

\* the public URL served by process or session h
Url(h) == "https://tunnel-" \o ToString(h)

\* tunnel.error / tunnel.process / a private session field that is not set
Undefined == "undefined"

----------------------------------------------------------------------------
(* The registry *)

\* providers/index: the registered keys
providers == {"pinggy", "cloudflare", "ngrok", "localtunnel"}

\* the properties the object literal `providers` inherits from Object.prototype
ObjectPrototype ==
    {"constructor", "toString", "valueOf", "hasOwnProperty", "__proto__"}

\* providers[name] (line 16): the implementation registered under an own key
\* (called by its key), an inherited property, or "undefined"
PropertyOf(name) ==
    IF name \in providers THEN name
    ELSE IF name \in ObjectPrototype THEN "Object.prototype." \o name
    ELSE "undefined"

\* getProvider(name), lines 15-21: what the lookup gives, or "throw" when it
\* gives nothing
getProvider(name) ==
    IF PropertyOf(name) = "undefined" THEN "throw" ELSE PropertyOf(name)

\* providers/index line 18: the error getProvider throws
UnknownProviderError(name) == Err("Unknown provider: " \o name)

\* cloudflareProvider.start (part_005): config.cloudflareMode || (token ? "token" : "quick")
cloudflareMode(o) ==
    IF objs[o].cloudflareMode # "undefined" THEN objs[o].cloudflareMode
    ELSE IF objs[o].token # NoToken THEN "token" ELSE "quick"

\* the start/stop bodies that serve tunnel o
Impl(o) ==
    CASE objs[o].provider = "pinggy" -> "pinggy_" \o build.pinggy
      [] objs[o].provider = "cloudflare" ->
            IF build.cloudflare = "base" THEN "cf_base" ELSE "cf_" \o cloudflareMode(o)
      [] objs[o].provider = "ngrok" -> "ngrok"
      [] objs[o].provider = "localtunnel" -> "localtunnel"
      [] OTHER -> "none"

----------------------------------------------------------------------------
(* Reads *)

\* TunnelManager.get(id)
get(id) == IF id \in DOMAIN tunnels THEN tunnels[id] ELSE 0

\* TunnelManager.getAll(): the tracked instances
getAll == { tunnels[id] : id \in DOMAIN tunnels }

CountStatus(s) == Cardinality({ o \in getAll : objs[o].status = s })

\* statistics that count every instance ever created
StatsOfHeap ==
    [ total  |-> Len(objs),
      live   |-> Cardinality({ o \in DOMAIN objs : objs[o].status = "live" }),
      error  |-> Cardinality({ o \in DOMAIN objs : objs[o].status = "error" }),
      closed |-> Cardinality({ o \in DOMAIN objs : objs[o].status = "closed" }) ]

\* TunnelManager.getStats()
getStats ==
    [ total  |-> Cardinality(getAll),
      live   |-> CountStatus("live"),
      error  |-> CountStatus("error"),
      closed |-> CountStatus("closed") ]

----------------------------------------------------------------------------
(* Helpers on the state *)

\* a log that keeps only the lines pushed last
Overwrite(h, o, lines) == [h EXCEPT ![o].logs = lines]

\* tunnel.logs.push(...lines) on object o of heap h
Push(h, o, lines) == [h EXCEPT ![o].logs = @ \o lines]

\* a catch that records error.message of whatever was thrown
MessageOfAnything(e) == e.message

\* a catch that records an empty message
EmptyMessage(e) == ""

\* the message TunnelManager's catch records
ManagerErrorMessage(e) == IF e.isError THEN e.message ELSE "Unknown error"

\* a call record.  pc is the call's position, ret what it returned ("pending"
\* until then) and retStatus/retError the instance as the caller receives it.
\* History only: during (the create() that was awaiting provider.start when a
\* stop was called), seg (the lifecycle segment a start belongs to) and logged
\* (the length of the tunnel's log when restart was called)
Call(op, id, o, pc) ==
    [ op |-> op, id |-> id, obj |-> o, pc |-> pc, phase |-> "", n |-> 0,
      err |-> NoErr, proc |-> 0, pending |-> {},
      ret |-> "pending", retStatus |-> "", retError |-> "",
      during |-> 0, seg |-> 0, logged |-> 0 ]

Idle == running = 0

\* a create/restart without the try block: the error reaches the caller
Propagated(call, e) == [call EXCEPT !.pc = "done", !.ret = "rejected", !.err = e]

\* e is thrown inside the try block of create (lines 41-44) or restart (lines
\* 75-78): the call goes on in its catch
Caught(call, e) == [call EXCEPT !.pc = "rejected", !.err = e]

\* tunnel.config: the fields of TunnelConfig that the manager and the
\* providers branch on
config(t) ==
    [ id |-> t.id, provider |-> t.provider, localPort |-> t.localPort,
      token |-> t.token, cloudflareMode |-> t.cloudflareMode ]

\* a fresh TunnelInstance (TunnelManager.create, lines 19-37); the request's
\* cloudflareMode, cloudflareTunnelName and cloudflareDomain are not copied
\* into the config
NewTunnel(id, req) ==
    [ id |-> id, provider |-> req.provider, localPort |-> req.localPort,
      token |-> req.token, cloudflareMode |-> "undefined",
      cloudflareTunnelName |-> "undefined", cloudflareDomain |-> "undefined",
      status |-> "starting", urls |-> <<>>, error |-> Undefined, logs |-> <<>>,
      process |-> 0, session |-> 0,
      \* history: the lifecycle segment (one per create/restart) and whether a
      \* stop/restart/delete call has ended it
      seg |-> 1, segOpen |-> TRUE ]

\* a create that has not inserted the record when it calls the provider
InsertDeferred(m, id, o) == m

\* Map.set(id, o)
MapSet(m, id, o) == [i \in DOMAIN m \cup {id} |-> IF i = id THEN o ELSE m[i]]

\* a delete that empties the collection
DeleteAll(m, id) == << >>

\* Map.delete(id)
MapDelete(m, id) == [i \in DOMAIN m \ {id} |-> m[i]]

\* a child process (Bun.spawn) or an SDK session started for tunnel o
NewProc(kind, o, P) ==
    [ kind |-> kind, obj |-> o, alive |-> TRUE, kills |-> 0, errors |-> 0,
      inspector |-> kind = "ngrok" /\ ~\E h \in DOMAIN P :
                        P[h].kind = "ngrok" /\ P[h].alive /\ P[h].inspector ]

\* proc.kill() / lt.close(): the call is counted; it ends the process unless it throws
Kill(P, h, throws) ==
    [P EXCEPT ![h].kills = @ + 1, ![h].alive = IF throws THEN @ ELSE FALSE]

----------------------------------------------------------------------------
(* The providers' start(), up to the first await *)

\* the lines start() logs before it spawns or connects
PreSpawnLogs(impl) ==
    CASE impl = "cf_base" ->
            << "$ cloudflared tunnel --url", "Starting Cloudflare tunnel..." >>
      [] impl = "cf_quick" ->
            << "Mode: Quick Tunnel (temporary, random URL)",
               "$ cloudflared tunnel --url", "Starting quick Cloudflare tunnel..." >>
      [] impl = "cf_token" ->
            << "Mode: Token Tunnel (managed via Dashboard)",
               "$ cloudflared tunnel run --token ***",
               "Starting named Cloudflare tunnel with token...",
               "Note: URL is configured in your Cloudflare Dashboard" >>
      [] impl = "cf_local" ->
            << "Mode: Local Tunnel (persistent, your domain)",
               "Setting up local tunnel" >>
      [] impl = "pinggy_ssh" ->
            << "$ ssh -p 443 -R0 free.pinggy.io", "Connecting to Pinggy..." >>
      [] impl = "pinggy_sdk" ->
            << "$ pinggy.forward({ forwarding })", "Connecting to Pinggy..." >>
      [] impl = "ngrok" ->
            << "$ ngrok http", "Starting ngrok..." >>
      [] impl = "localtunnel" ->
            << "$ localtunnel --port", "Starting localtunnel...",
               "Connecting to loca.lt server..." >>

\* the lines start() logs after tunnel.process is set
PostSpawnLogs(impl, hasToken) ==
    CASE impl = "cf_base" -> << "Connecting to Cloudflare edge..." >>
      [] impl = "cf_quick" -> << "Connecting to Cloudflare edge network..." >>
      [] impl = "pinggy_ssh" -> << "Using Pinggy Free tier" >>
      [] impl = "ngrok" ->
            (IF hasToken THEN << "Using authtoken from form" >> ELSE << >>)
            \o << "Waiting for ngrok API..." >>
      [] OTHER -> << >>

\* whether start() spawns its child process before its first await
Spawns(impl) == impl \in {"cf_base", "cf_quick", "cf_token", "pinggy_ssh", "ngrok"}

\* what start() awaits first
FirstPhase(impl) ==
    CASE impl \in {"cf_base", "cf_quick", "cf_token", "pinggy_ssh"} -> "scan"
      [] impl = "ngrok" -> "poll"
      [] impl = "pinggy_sdk" -> "forward"
      [] impl = "localtunnel" -> "connect"
      [] impl = "cf_local" -> "setup"

----------------------------------------------------------------------------
(* The providers' stop() *)

\* status = "closed" and the last log line of every provider's stop()
Closed(O, o) == Push([O EXCEPT ![o].status = "closed"], o, << "Tunnel stopped" >>)

\* localtunnel's "close" handler (localtunnel.ts 78-83), run when lt.close() emits
OnLtClose(O, o) ==
    IF O[o].status = "live"
    THEN Push([O EXCEPT ![o].status = "closed"], o, << "Tunnel closed by server" >>)
    ELSE O

\* provider.stop(tunnel) up to its first await, on heaps O and P; `throws` says
\* whether the kill()/close() it makes throws.  out: "done" (resolved),
\* "threw" (rejected) or "await" (suspended on sdkTunnel.stop())
ProviderStop(O, P, o, throws) ==
    LET impl == Impl(o)
        O1 == Push(O, o, << "Stopping tunnel..." >>)
        h == O[o].process
        s == O[o].session
    IN  CASE impl = "cf_base" ->
                \* no try/catch around tunnel.process?.kill()
                IF h = 0 THEN [objs |-> Closed(O1, o), procs |-> P, out |-> "done"]
                ELSE IF throws
                THEN [objs |-> O1, procs |-> Kill(P, h, TRUE), out |-> "threw"]
                ELSE [objs |-> Closed(O1, o), procs |-> Kill(P, h, FALSE), out |-> "done"]
          [] impl \in {"cf_quick", "cf_token", "cf_local", "pinggy_ssh", "ngrok"} ->
                [ objs |-> Closed(O1, o),
                  procs |-> IF h = 0 THEN P ELSE Kill(P, h, throws),
                  out |-> "done" ]
          [] impl = "localtunnel" ->
                IF s = 0 THEN [objs |-> Closed(O1, o), procs |-> P, out |-> "done"]
                ELSE IF throws
                THEN [objs |-> Closed(O1, o), procs |-> Kill(P, s, TRUE), out |-> "done"]
                ELSE [ objs |-> Closed(OnLtClose(O1, o), o),
                       procs |-> Kill(P, s, FALSE), out |-> "done" ]
          [] impl = "pinggy_sdk" ->
                IF s = 0
                THEN [ objs |-> Closed(O1, o),
                       procs |-> IF h = 0 THEN P ELSE Kill(P, h, throws),
                       out |-> "done" ]
                ELSE [ objs |-> O1, procs |-> [P EXCEPT ![s].kills = @ + 1],
                       out |-> "await" ]

\* a stop(id) that reports success without looking the id up
StopWithoutLookup(O, P, id, throws) == [objs |-> O, procs |-> P, ret |-> "true"]

\* TunnelManager.stop(id) up to its first suspension.  ret: "false" (unknown id,
\* or the provider lookup or stop threw), "true", or "pending" (suspended)
ManagerStop(O, P, id, throws) ==
    LET o == get(id) IN
    IF o = 0 THEN [objs |-> O, procs |-> P, ret |-> "false"]
    ELSE IF getProvider(O[o].provider) = "throw"
    THEN [objs |-> O, procs |-> P, ret |-> "false"]
    ELSE LET r == ProviderStop(O, P, o, throws) IN
         [ objs |-> r.objs, procs |-> r.procs,
           ret |-> CASE r.out = "done" -> "true"
                     [] r.out = "threw" -> "false"
                     [] r.out = "await" -> "pending" ]

\* the sdkTunnel.stop() promises a suspended stop waits for: <<tunnel, session>>
Pending(o, r) == IF r.ret = "pending" THEN {<<o, objs[o].session>>} ELSE {}

----------------------------------------------------------------------------
(* The manager's calls *)

\* TunnelManager.generateId(): t-<Date.now()>-<random suffix>
generateId(ms, suffix) == <<ms, suffix>>

\* the ids callers pass: every id ever returned and, until MaxTunnels ids were
\* returned, one that never was
ArgIds ==
    { objs[o].id : o \in DOMAIN objs }
    \cup (IF Len(objs) < MaxTunnels THEN {NoSuchId} ELSE {})

\* a call that returns an instance: the result and what the caller sees in it
Return(call, O) ==
    [call EXCEPT !.pc = "done", !.ret = "instance",
                 !.retStatus = O[call.obj].status, !.retError = O[call.obj].error]

\* the calls of provider.start made so far
Starts == Cardinality({ c \in DOMAIN calls :
                          calls[c].op \in {"create", "restart"} /\ calls[c].obj # 0 })

\* the revisions of a provider module
Revisions(provider) ==
    CASE provider = "pinggy" -> {"sdk", "ssh"}
      [] provider = "cloudflare" -> {"base", "modes"}
      [] OTHER -> {"only"}

\* the module of `provider` is linked in revision rev
Linked(provider, rev) ==
    IF provider \in DOMAIN build
    THEN IF build[provider] = "unused" THEN [build EXCEPT ![provider] = rev] ELSE build
    ELSE build

\* create(request), lines 16-39: build the instance and insert it.  `elapsed`
\* is the time since the previous create, in ms; the clock starts at 0 and the
\* first suffix drawn is called "a", as is the first one drawn in a new millisecond
CreateCall(req, elapsed, suffix, rev) ==
    /\ Idle
    /\ Len(objs) < MaxTunnels
    /\ Len(calls) < MaxCalls
    /\ Starts < MaxStarts
    /\ Len(objs) = 0 => elapsed = 0 /\ suffix = "a"
    /\ elapsed > 0 => suffix = "a"
    /\ rev \in Revisions(req.provider)
    /\ build' = Linked(req.provider, rev)
    \* cloudflare.ts never reads config.token: requests with one go to part_005
    /\ (req.provider = "cloudflare" /\ req.token # NoToken) => build'.cloudflare = "modes"
    /\ now' = now + elapsed
    /\ LET id == generateId(now', suffix)
           o == Len(objs) + 1
       IN /\ objs' = Append(objs, NewTunnel(id, req))
          /\ tunnels' = MapSet(tunnels, id, o)
          /\ calls' = Append(calls, [Call("create", id, o, "inserted") EXCEPT !.seg = 1])
    /\ running' = Len(calls) + 1
    /\ UNCHANGED procs
    /\ UNCHANGED scan

\* create lines 41-43 / restart lines 75-77: getProvider, then provider.start
\* up to its first await.  `spawned`: whether Bun.spawn found the executable
BeginStart(c, spawned) ==
    /\ running = c
    /\ calls[c].pc \in {"inserted", "reset"}
    /\ LET o == calls[c].obj
           impl == Impl(o)
       IN IF getProvider(objs[o].provider) = "throw"
          THEN /\ calls' = [calls EXCEPT
                              ![c] = Caught(@, UnknownProviderError(objs[o].provider))]
               /\ UNCHANGED <<objs, procs, running>>
          ELSE IF Spawns(impl) /\ ~spawned
          THEN /\ objs' = Push(objs, o, PreSpawnLogs(impl))
               /\ calls' = [calls EXCEPT
                              ![c] = Caught(@, Err("spawn: executable not found"))]
               /\ UNCHANGED <<procs, running>>
          ELSE IF Spawns(impl)
          THEN LET h == Len(procs) + 1 IN
               /\ procs' = Append(procs, NewProc(impl, o, procs))
               /\ objs' = Push([objs EXCEPT ![o].process = h], o,
                               PreSpawnLogs(impl)
                               \o PostSpawnLogs(impl, objs[o].token # NoToken))
               /\ calls' = [calls EXCEPT ![c].pc = "await",
                                         ![c].phase = FirstPhase(impl), ![c].proc = h]
               /\ running' = 0
          ELSE /\ objs' = Push(objs, o, PreSpawnLogs(impl))
               /\ calls' = [calls EXCEPT ![c].pc = "await", ![c].phase = FirstPhase(impl)]
               /\ running' = 0
               /\ UNCHANGED procs
    /\ UNCHANGED <<build, now, tunnels>>
    /\ UNCHANGED scan

\* create lines 44-49 / restart lines 78-83: the catch, then return tunnel
ManagerCatch(c) ==
    /\ running = c
    /\ calls[c].pc = "rejected"
    /\ LET o == calls[c].obj
           O == [objs EXCEPT ![o].status = "error",
                             ![o].error = ManagerErrorMessage(calls[c].err)]
       IN /\ objs' = O
          /\ calls' = [calls EXCEPT ![c] = Return(@, O)]
    /\ running' = 0
    /\ UNCHANGED <<build, now, tunnels, procs>>
    /\ UNCHANGED scan

\* the stop of tunnel o ends its lifecycle segment (history)
EndSegment(O, S) == [o \in DOMAIN O |-> IF o \in S THEN [O[o] EXCEPT !.segOpen = FALSE] ELSE O[o]]

\* the create() of tunnel o that is awaiting provider.start with status starting
CreateAwaited(o) ==
    IF o # 0 /\ objs[o].status = "starting"
       /\ \E c \in DOMAIN calls :
              calls[c].op = "create" /\ calls[c].obj = o /\ calls[c].pc = "await"
    THEN CHOOSE c \in DOMAIN calls :
              calls[c].op = "create" /\ calls[c].obj = o /\ calls[c].pc = "await"
    ELSE 0

\* stop(id), lines 52-63
StopCall(id, throws) ==
    /\ Idle
    /\ Len(calls) < MaxCalls
    /\ LET o == get(id)
           r == ManagerStop(objs, procs, id, throws)
           O == EndSegment(r.objs, {o})
       IN /\ objs' = O
          /\ procs' = r.procs
          /\ calls' = Append(calls,
                [Call("stop", id, o, IF r.ret = "pending" THEN "sdkstop" ELSE "done")
                   EXCEPT !.ret = r.ret,
                          !.retStatus = IF o = 0 \/ r.ret = "pending" THEN "" ELSE O[o].status,
                          !.pending = Pending(o, r),
                          !.during = CreateAwaited(o)])
    /\ UNCHANGED <<build, now, tunnels, running>>
    /\ UNCHANGED scan

\* restart(id), lines 65-69: the lookup and stop(id)
RestartCall(id, throws) ==
    /\ Idle
    /\ Len(calls) < MaxCalls
    /\ LET o == get(id)
           r == ManagerStop(objs, procs, id, throws)
           c == Len(calls) + 1
       IN IF o = 0
          THEN /\ calls' = Append(calls,
                      [Call("restart", id, 0, "done") EXCEPT !.ret = "undefined"])
               /\ UNCHANGED <<objs, procs, running>>
          ELSE /\ Starts < MaxStarts
               /\ objs' = EndSegment(r.objs, {o})
               /\ procs' = r.procs
               /\ calls' = Append(calls,
                      [Call("restart", id, o, IF r.ret = "pending" THEN "sdkstop" ELSE "stopped")
                         EXCEPT !.pending = Pending(o, r),
                                !.logged = Len(objs[o].logs)])
               /\ running' = IF r.ret = "pending" THEN 0 ELSE c
    /\ UNCHANGED <<build, now, tunnels>>
    /\ UNCHANGED scan

\* a restart that puts a record with a fresh id in place of the old one
ResetWithNewId(t) ==
    [t EXCEPT !.status = "starting", !.urls = <<>>, !.error = Undefined,
              !.id = generateId(t.id[1] + 1, "a"),
              !.seg = @ + 1, !.segOpen = TRUE]

\* a restart that resets the status only
ResetStatusOnly(t) ==
    [t EXCEPT !.status = "starting", !.seg = @ + 1, !.segOpen = TRUE]

\* a restart that keeps the URLs of the segment it ends
ResetKeepsUrls(t) ==
    [t EXCEPT !.status = "starting", !.error = Undefined,
              !.seg = @ + 1, !.segOpen = TRUE]

\* restart lines 71-73 on instance t: status, urls and error are reset (and a
\* new lifecycle segment begins)
Reset(t) ==
    [t EXCEPT !.status = "starting", !.urls = <<>>, !.error = Undefined,
              !.seg = @ + 1, !.segOpen = TRUE]

\* restart lines 71-73
RestartReset(c) ==
    /\ running = c
    /\ calls[c].pc = "stopped"
    /\ LET o == calls[c].obj IN
       /\ objs' = [objs EXCEPT ![o] = Reset(@)]
       /\ calls' = [calls EXCEPT ![c].pc = "reset", ![c].seg = objs[o].seg + 1]
    /\ UNCHANGED <<build, now, tunnels, procs, running>>
    /\ UNCHANGED scan

\* delete(id), lines 86-92: stop(id) is not awaited
DeleteCall(id, throws) ==
    /\ Idle
    /\ Len(calls) < MaxCalls
    /\ LET o == get(id)
           r == ManagerStop(objs, procs, id, throws)
       IN IF o = 0
          THEN /\ calls' = Append(calls,
                      [Call("delete", id, 0, "done") EXCEPT !.ret = "false"])
               /\ UNCHANGED <<objs, procs, tunnels>>
          ELSE /\ objs' = EndSegment(r.objs, {o})
               /\ procs' = r.procs
               /\ tunnels' = MapDelete(tunnels, id)
               /\ calls' = Append(calls,
                      [Call("delete", id, o, IF r.ret = "pending" THEN "sdkstop" ELSE "done")
                         EXCEPT !.ret = "true", !.pending = Pending(o, r)])
    /\ UNCHANGED <<build, now, running>>
    /\ UNCHANGED scan

\* a stopAll that gives up at the first stop that fails
RECURSIVE StopUntilFailure(_, _, _, _)
StopUntilFailure(O, P, S, T) ==
    IF S = {} THEN [objs |-> O, procs |-> P, pending |-> {}]
    ELSE LET o == CHOOSE x \in S : TRUE
             r == ManagerStop(O, P, objs[o].id, o \in T)
             rest == IF r.ret = "false"
                     THEN [objs |-> r.objs, procs |-> r.procs, pending |-> {}]
                     ELSE StopUntilFailure(r.objs, r.procs, S \ {o}, T)
         IN [ objs |-> rest.objs, procs |-> rest.procs,
              pending |-> rest.pending \cup Pending(o, r) ]

\* stopAll line 103: stop(id) for every key, each up to its first suspension;
\* T: the tunnels whose kill() throws
RECURSIVE StopEach(_, _, _, _)
StopEach(O, P, S, T) ==
    IF S = {} THEN [objs |-> O, procs |-> P, pending |-> {}]
    ELSE LET o == CHOOSE x \in S : TRUE
             r == ManagerStop(O, P, objs[o].id, o \in T)
             rest == StopEach(r.objs, r.procs, S \ {o}, T)
         IN [ objs |-> rest.objs, procs |-> rest.procs,
              pending |-> rest.pending \cup Pending(o, r) ]

\* stopAll(), lines 102-105
StopAllCall(T) ==
    /\ Idle
    /\ Len(calls) < MaxCalls
    /\ T \subseteq getAll
    /\ LET r == StopEach(objs, procs, getAll, T) IN
       /\ objs' = EndSegment(r.objs, getAll)
       /\ procs' = r.procs
       /\ calls' = Append(calls,
              [Call("stopAll", NoSuchId, 0, IF r.pending = {} THEN "done" ELSE "sdkstop")
                 EXCEPT !.ret = IF r.pending = {} THEN "void" ELSE "pending",
                        !.pending = r.pending])
    /\ UNCHANGED <<build, now, tunnels, running>>
    /\ UNCHANGED scan

\* pinggy (SDK) stop, lines 63-72: sdkTunnel.stop() settles (resolved: the
\* session is gone; rejected: swallowed), then status closed; the manager's
\* stop returns true and its caller goes on
SdkStopSettle(c, p, resolved) ==
    /\ Idle
    /\ calls[c].pc = "sdkstop"
    /\ p \in calls[c].pending
    /\ LET o == p[1]
           s == p[2]
           O == Closed(objs, o)
           left == calls[c].pending \ {p}
       IN /\ objs' = O
          /\ procs' = IF resolved THEN [procs EXCEPT ![s].alive = FALSE] ELSE procs
          /\ CASE calls[c].op = "stop" ->
                    /\ calls' = [calls EXCEPT ![c].pc = "done", ![c].ret = "true",
                                              ![c].retStatus = O[o].status,
                                              ![c].pending = left]
                    /\ UNCHANGED running
               [] calls[c].op = "restart" ->
                    /\ calls' = [calls EXCEPT ![c].pc = "stopped", ![c].pending = left]
                    /\ running' = c
               [] calls[c].op = "delete" ->
                    /\ calls' = [calls EXCEPT ![c].pc = "done", ![c].pending = left]
                    /\ UNCHANGED running
               [] calls[c].op = "stopAll" ->
                    /\ calls' = [calls EXCEPT ![c].pc = IF left = {} THEN "done" ELSE @,
                                              ![c].ret = IF left = {} THEN "void" ELSE @,
                                              ![c].pending = left]
                    /\ UNCHANGED running
    /\ UNCHANGED <<build, now, tunnels>>
    /\ UNCHANGED scan

----------------------------------------------------------------------------
(* The providers' start(), from its first await on: what the outside world  *)
(* (the child's output, timers, the SDKs, the inspector API) makes of it    *)

Awaiting(c, phase, impls) ==
    /\ Idle
    /\ calls[c].pc = "await"
    /\ calls[c].phase = phase
    /\ Impl(calls[c].obj) \in impls

\* a scan that marks the tunnel live without recording the URL it found
EstablishedWithoutUrl(O, o, h, impl) ==
    Push([O EXCEPT ![o].status = "live"], o, << "Tunnel established!" >>)

\* the scan resolved: urls, status live and the log lines (cloudflare.ts 35-38,
\* part_005 116-119 and 300-304)
Established(O, o, h, impl) ==
    IF impl = "cf_token"
    THEN Push([O EXCEPT ![o].status = "live", ![o].urls = << "See Cloudflare Dashboard" >>],
              o, << "Tunnel connected to Cloudflare!",
                    "Check your Cloudflare Dashboard for the URL" >>)
    ELSE Push([O EXCEPT ![o].urls = << Url(h) >>, ![o].status = "live"],
              o, << "Tunnel established!", "URL: " \o Url(h) >>)

\* waitForUrl / waitForCloudflareUrl / waitForConnection resolve
ScanMatch(c) ==
    /\ Awaiting(c, "scan", {"cf_base", "cf_quick", "cf_token"})
    /\ LET o == calls[c].obj
           O == Established(objs, o, calls[c].proc, Impl(o))
       IN /\ objs' = O
          /\ calls' = [calls EXCEPT ![c] = Return(@, O)]
    /\ UNCHANGED <<build, now, tunnels, procs, running>>
    /\ UNCHANGED scan

\* the rejections of the three scanners
ScanFailure(impl, kind) ==
    CASE kind = "timeout" ->
            IF impl = "cf_token" THEN "Timeout waiting for tunnel connection"
            ELSE "Timeout waiting for tunnel URL"
      [] kind = "eof" ->
            IF impl = "cf_token" THEN "Stream ended without connection"
            ELSE "Stream ended without finding URL"
      [] kind = "connection" -> "Connection failed"

\* the scan rejected, and the catch of start(): proc.kill(), the ERROR line,
\* rethrow (cloudflare.ts 39-43, part_005 123-132 and 309-313).  "eof": the
\* process has been killed, or it ends now
ScanFail(c, kind) ==
    /\ Awaiting(c, "scan", {"cf_base", "cf_quick", "cf_token"})
    /\ kind = "connection" => Impl(calls[c].obj) = "cf_token"
    /\ LET o == calls[c].obj
           impl == Impl(o)
           msg == ScanFailure(impl, kind)
           tips == IF impl = "cf_quick" /\ kind = "timeout"
                   THEN << "TIP: Make sure cloudflared is installed correctly",
                           "TIP: Check your network connection to Cloudflare" >>
                   ELSE << >>
       IN /\ procs' = Kill(procs, calls[c].proc, FALSE)
          /\ objs' = Push(objs, o, << "ERROR: " \o msg >> \o tips)
          /\ calls' = [calls EXCEPT ![c] = Caught(@, Err(msg))]
    /\ running' = c
    /\ UNCHANGED <<build, now, tunnels>>
    /\ UNCHANGED scan

\* pinggy (ssh) waitForUrls: a chunk with a first URL and no completion marker
SshUrlChunk(c) ==
    /\ Awaiting(c, "scan", {"pinggy_ssh"})
    /\ calls[c].n = 0
    /\ calls' = [calls EXCEPT ![c].n = 1]
    /\ UNCHANGED <<build, now, objs, tunnels, procs, running>>
    /\ UNCHANGED scan

\* the URLs pinggy prints: the https one, then the http one
PinggyUrls(h, k) ==
    IF k = 1 THEN << Url(h) >> ELSE << Url(h), "http://tunnel-" \o ToString(h) >>

\* pinggy (ssh) waitForUrls returns k URLs and start() goes on (part_004
\* 168-179).  how: "complete" (two URLs, or one and "You can access"), "eof"
\* (done: the process has been killed, or it ends now), "deadline" (a chunk
\* read after 30 s)
SshFinish(c, how, k) ==
    /\ Awaiting(c, "scan", {"pinggy_ssh"})
    /\ k \in 0..2
    /\ how = "complete" => k >= 1 /\ k >= calls[c].n
    /\ how = "eof" => k = calls[c].n
    /\ how = "deadline" => k = calls[c].n
    /\ LET o == calls[c].obj
           h == calls[c].proc
       IN IF k > 0
          THEN LET O == Push([objs EXCEPT ![o].urls = PinggyUrls(h, k), ![o].status = "live"],
                             o, << "Tunnel established successfully!" >>
                                \o [i \in 1..k |-> "URL: " \o PinggyUrls(h, k)[i]])
               IN /\ objs' = O
                  /\ calls' = [calls EXCEPT ![c] = Return(@, O)]
                  /\ procs' = IF how = "eof" THEN [procs EXCEPT ![h].alive = FALSE]
                              ELSE procs
                  /\ UNCHANGED running
          ELSE /\ procs' = Kill(procs, h, FALSE)
               /\ objs' = Push([objs EXCEPT ![o].status = "error"], o,
                               << "ERROR: Failed to get tunnel URL" >>)
               /\ calls' = [calls EXCEPT
                              ![c] = Caught(@, Err("Failed to get tunnel URL from Pinggy"))]
               /\ running' = c
    /\ UNCHANGED <<build, now, tunnels>>
    /\ UNCHANGED scan

\* pinggy (SDK) start's catch, lines 49-54
SdkCatch(O, o, e) ==
    Push([O EXCEPT ![o].status = "error"], o,
         << "ERROR: Pinggy SDK failed: " \o (IF e.isError THEN e.message ELSE "[object]") >>)

\* pinggy.forward() settles, lines 26-30
ForwardSettle(c, e) ==
    /\ Awaiting(c, "forward", {"pinggy_sdk"})
    /\ LET o == calls[c].obj
           h == Len(procs) + 1
       IN IF e = NoErr
          THEN /\ procs' = Append(procs, NewProc("sdk", o, procs))
               /\ objs' = [objs EXCEPT ![o].session = h]
               /\ calls' = [calls EXCEPT ![c].phase = "sdkpoll", ![c].proc = h]
               /\ UNCHANGED running
          ELSE /\ objs' = SdkCatch(objs, o, e)
               /\ calls' = [calls EXCEPT ![c] = Caught(@, e)]
               /\ running' = c
               /\ UNCHANGED procs
    /\ UNCHANGED <<build, now, tunnels>>
    /\ UNCHANGED scan

\* waitForSdkUrls returns (lines 32-48): URLs, or none once the session is
\* closed or 30 s have passed
SdkPoll(c, got) ==
    /\ Awaiting(c, "sdkpoll", {"pinggy_sdk"})
    /\ got => procs[calls[c].proc].alive
    /\ LET o == calls[c].obj
           h == calls[c].proc
           e == Err("Pinggy SDK did not return a public URL")
       IN IF got
          THEN LET O == Push([objs EXCEPT ![o].urls = << Url(h) >>, ![o].status = "live"],
                             o, << "Tunnel established successfully!", "URL: " \o Url(h) >>)
               IN /\ objs' = O
                  /\ calls' = [calls EXCEPT ![c] = Return(@, O)]
                  /\ UNCHANGED running
          ELSE /\ objs' = SdkCatch(objs, o, e)
               /\ calls' = [calls EXCEPT ![c] = Caught(@, e)]
               /\ running' = c
    /\ UNCHANGED <<build, now, tunnels, procs>>
    /\ UNCHANGED scan

\* the ngrok process that serves the inspector API on 127.0.0.1:4040, or 0
InspectorOwner ==
    IF \E h \in DOMAIN procs : procs[h].kind = "ngrok" /\ procs[h].alive /\ procs[h].inspector
    THEN CHOOSE h \in DOMAIN procs :
            procs[h].kind = "ngrok" /\ procs[h].alive /\ procs[h].inspector
    ELSE 0

\* the lines of rounds 1..k of ngrok's polling loop
RECURSIVE AttemptLines(_)
AttemptLines(k) ==
    IF k = 0 THEN << >>
    ELSE Append(AttemptLines(k - 1), "Attempt " \o ToString(k) \o "/10...")

\* the rounds at which the model lets the inspector API list the tunnel
AnswerRounds == {1, maxAttempts}

\* ngrok's polling loop, lines 52-82, from its first sleep to its return:
\* rounds 1..k-1 find no tunnel; round k finds one (got), or is the last one
\* and start() records the error and returns normally.  Between two rounds the
\* loop only sleeps and logs, so the rounds are taken in one step
NgrokPoll(c, k, got) ==
    /\ Awaiting(c, "poll", {"ngrok"})
    /\ k \in 1..maxAttempts
    /\ got => InspectorOwner # 0
    /\ ~got => k = maxAttempts
    /\ LET o == calls[c].obj
           O1 == Push(objs, o, AttemptLines(k))
           msg == "Failed to get tunnel URL from ngrok. Make sure authtoken is valid."
           O == IF got
                THEN Push([O1 EXCEPT ![o].urls = << Url(InspectorOwner) >>,
                                     ![o].status = "live"],
                          o, << "Tunnel established!", "URL: " \o Url(InspectorOwner) >>)
                ELSE IF O1[o].process # 0
                THEN Push([O1 EXCEPT ![o].status = "error", ![o].error = msg],
                          o, << "ERROR: " \o msg >>)
                ELSE O1
       IN /\ objs' = O
          /\ calls' = [calls EXCEPT ![c] = Return([@ EXCEPT !.n = k], O)]
    /\ UNCHANGED <<build, now, tunnels, procs, running>>
    /\ UNCHANGED scan

\* localtunnel(options) and getPublicIP() settle, lines 55-95 (getPublicIP
\* finds the address)
LtSettle(c, e) ==
    /\ Awaiting(c, "connect", {"localtunnel"})
    /\ LET o == calls[c].obj
           h == Len(procs) + 1
       IN IF e = NoErr
          THEN LET O == Push([objs EXCEPT ![o].session = h, ![o].urls = << Url(h) >>,
                                          ![o].status = "live"],
                             o, << "Tunnel established!", "URL: " \o Url(h) >>
                                \o << "Password (your IP)" >>)
               IN /\ procs' = Append(procs, NewProc("lt", o, procs))
                  /\ objs' = O
                  /\ calls' = [calls EXCEPT ![c] = Return([@ EXCEPT !.proc = h], O)]
                  /\ UNCHANGED running
          ELSE /\ objs' = Push([objs EXCEPT ![o].status = "error"], o,
                               << "ERROR: " \o (IF e.isError THEN e.message ELSE "Unknown error") >>)
               /\ calls' = [calls EXCEPT ![c] = Caught(@, e)]
               /\ running' = c
               /\ UNCHANGED procs
    /\ UNCHANGED <<build, now, tunnels>>
    /\ UNCHANGED scan

\* the server closes a localtunnel session: the "close" handler, lines 78-83
LtClose(h) ==
    /\ Idle
    /\ procs[h].kind = "lt"
    /\ procs[h].alive
    /\ procs' = [procs EXCEPT ![h].alive = FALSE]
    /\ objs' = OnLtClose(objs, procs[h].obj)
    /\ UNCHANGED <<build, now, tunnels, calls, running>>
    /\ UNCHANGED scan

\* a localtunnel session emits "error": the handler, lines 86-90
LtError(h) ==
    /\ Idle
    /\ procs[h].kind = "lt"
    /\ procs[h].alive
    /\ procs[h].errors < MaxSessionErrors
    /\ procs' = [procs EXCEPT ![h].errors = @ + 1]
    /\ objs' = Push([objs EXCEPT ![procs[h].obj].status = "error",
                                 ![procs[h].obj].error = "connection error"],
                    procs[h].obj, << "ERROR: connection error" >>)
    /\ UNCHANGED <<build, now, tunnels, calls, running>>
    /\ UNCHANGED scan

\* a child process or an SDK session ends on its own (while a start awaits its
\* output, its end is the "eof" of that scan)
ProcExit(h) ==
    /\ Idle
    /\ procs[h].kind # "lt"
    /\ procs[h].alive
    /\ ~\E c \in DOMAIN calls : calls[c].pc = "await" /\ calls[c].proc = h
    /\ procs' = [procs EXCEPT ![h].alive = FALSE]
    /\ UNCHANGED <<build, now, objs, tunnels, calls, running>>
    /\ UNCHANGED scan

----------------------------------------------------------------------------
(* The specification *)

\* no call of waitForUrl is followed chunk by chunk
NoScan == [pc |-> "none"]

Init ==
    /\ build = [pinggy |-> "unused", cloudflare |-> "unused"]
    /\ now = 0
    /\ objs = << >>
    /\ tunnels = << >>
    /\ procs = << >>
    /\ calls = << >>
    /\ running = 0
    /\ scan = NoScan

Errors == {Err("connection refused"), NonError}

Next ==
    \/ \E req \in Requests, elapsed \in {0, 1}, suffix \in RandomSuffixes,
          rev \in {"sdk", "ssh", "base", "modes", "only"} :
          CreateCall(req, elapsed, suffix, rev)
    \/ \E c \in DOMAIN calls, spawned \in BOOLEAN : BeginStart(c, spawned)
    \/ \E c \in DOMAIN calls : ManagerCatch(c)
    \/ \E id \in ArgIds, throws \in BOOLEAN : StopCall(id, throws)
    \/ \E id \in ArgIds, throws \in BOOLEAN : RestartCall(id, throws)
    \/ \E c \in DOMAIN calls : RestartReset(c)
    \/ \E id \in ArgIds, throws \in BOOLEAN : DeleteCall(id, throws)
    \/ \E T \in SUBSET getAll : StopAllCall(T)
    \/ \E c \in DOMAIN calls, p \in (DOMAIN objs) \X (DOMAIN procs), resolved \in BOOLEAN :
          SdkStopSettle(c, p, resolved)
    \/ \E c \in DOMAIN calls : ScanMatch(c)
    \/ \E c \in DOMAIN calls, kind \in {"timeout", "eof", "connection"} :
          ScanFail(c, kind)
    \/ \E c \in DOMAIN calls : SshUrlChunk(c)
    \/ \E c \in DOMAIN calls, how \in {"complete", "eof", "deadline"}, k \in 0..2 :
          SshFinish(c, how, k)
    \/ \E c \in DOMAIN calls, e \in {NoErr} \cup Errors : ForwardSettle(c, e)
    \/ \E c \in DOMAIN calls, got \in BOOLEAN : SdkPoll(c, got)
    \/ \E c \in DOMAIN calls, k \in AnswerRounds, got \in BOOLEAN : NgrokPoll(c, k, got)
    \/ \E c \in DOMAIN calls, e \in {NoErr} \cup Errors : LtSettle(c, e)
    \/ \E h \in DOMAIN procs : LtClose(h)
    \/ \E h \in DOMAIN procs : LtError(h)
    \/ \E h \in DOMAIN procs : ProcExit(h)

Spec == Init /\ [][Next]_vars

----------------------------------------------------------------------------
(* Error containment of create() *)

\* provider.start was invoked by call c and rejected
StartRejected(c) ==
    /\ calls[c].err.settled = "rejected"
    /\ getProvider(objs[calls[c].obj].provider) # "throw"

----------------------------------------------------------------------------
(* Ids and visibility of the record *)

\* C3 as stated: the ids of the instances create() returned are pairwise
\* distinct, so no create() replaces a record of the collection
C3_IdsPairwiseDistinct ==
    \A o1, o2 \in DOMAIN objs : o1 # o2 => objs[o1].id # objs[o2].id

\* no call other than c names the id of c
NoOtherCallOn(c) ==
    \A d \in DOMAIN calls \ {c} : calls[d].id # calls[c].id

\* C4: create() has inserted the record, with status starting and empty urls
\* and logs, before provider.start is invoked, and while that start is in
\* flight and no other call names the id, get(id) and getAll() return it
C4_InsertedBeforeStart ==
    \A c \in DOMAIN calls :
        calls[c].op = "create" =>
            LET o == calls[c].obj
                id == calls[c].id
            IN /\ calls[c].pc = "inserted"
                  => /\ get(id) = o
                     /\ objs[o].status = "starting"
                     /\ objs[o].urls = << >>
                     /\ objs[o].logs = << >>
                     /\ objs[o].process = 0
               /\ (calls[c].pc \in {"inserted", "await", "rejected"} /\ NoOtherCallOn(c))
                  => /\ get(id) = o
                     /\ o \in getAll

\* a start is in flight, another tunnel was created meanwhile, and the record
\* is still the one get(id) returns
C4_Witness ==
    \E c \in DOMAIN calls :
        /\ calls[c].op = "create" /\ calls[c].pc = "await" /\ NoOtherCallOn(c)
        /\ Len(calls) > 1
        /\ objs[calls[c].obj].status = "starting"
        /\ get(calls[c].id) = calls[c].obj

----------------------------------------------------------------------------
(* Status within a lifecycle segment, stop, unknown ids *)

\* the status of tunnel o changes inside a lifecycle segment: the segment is
\* open before and after the step, so the step is no stop, restart or delete
ChangesInSegment(o) ==
    /\ objs[o].segOpen /\ objs'[o].segOpen
    /\ objs'[o].seg = objs[o].seg
    /\ objs'[o].status # objs[o].status

\* C5 as stated: between one create/restart and the next stop/restart on its
\* id, the status of an instance changes only from starting to live or from
\* starting to error
C5_StatusMonotone ==
    [][\A o \in DOMAIN objs :
          ChangesInSegment(o)
          => objs[o].status = "starting" /\ objs'[o].status \in {"live", "error"}]_vars

\* C6 as stated: a stop(id) of a tracked tunnel, whatever its provider and
\* status, and a second one after it, do not throw and leave the status closed
C6_StopLeavesClosed ==
    \A c \in DOMAIN calls :
        (calls[c].op = "stop" /\ calls[c].obj # 0 /\ calls[c].pc = "done")
        => calls[c].ret = "true" /\ calls[c].retStatus = "closed"

\* the call the step makes, if it makes one
NewCall == calls'[Len(calls')]

\* C7: on an id that is not in the collection stop returns false, restart
\* undefined, delete false and get undefined; no provider is invoked, and the
\* collection, the records and the processes are as before
C7_UnknownIdIsNoOp ==
    [][/\ \A id \in ArgIds : id \notin DOMAIN tunnels => get(id) = 0
       /\ (Len(calls') = Len(calls) + 1 /\ NewCall.op \in {"stop", "restart", "delete"}
           /\ NewCall.id \notin DOMAIN tunnels)
          => /\ NewCall.pc = "done"
             /\ NewCall.ret = (IF NewCall.op = "restart" THEN "undefined" ELSE "false")
             /\ tunnels' = tunnels
             /\ objs' = objs
             /\ procs' = procs
             /\ running' = running]_vars

\* stop and restart were called on an id that is not in the collection while
\* a record was tracked
C7_Witness ==
    /\ DOMAIN tunnels # {}
    /\ \E c, d \in DOMAIN calls :
          /\ calls[c].op = "stop" /\ calls[c].obj = 0 /\ calls[c].ret = "false"
          /\ calls[d].op = "restart" /\ calls[d].obj = 0 /\ calls[d].ret = "undefined"
          /\ calls[c].id \notin DOMAIN tunnels
          /\ calls[d].id \notin DOMAIN tunnels

----------------------------------------------------------------------------
(* stop() while create() awaits provider.start *)

\* stop call s was made while the create() of its tunnel was awaiting
\* provider.start with status starting, both calls have settled, and no other
\* call was made on the id
StopDuringCreateSettled(s) ==
    /\ calls[s].op = "stop"
    /\ calls[s].during # 0
    /\ calls[s].pc = "done"
    /\ calls[calls[s].during].pc = "done"
    /\ \A d \in DOMAIN calls \ {s, calls[s].during} :
          calls[d].id # calls[s].id /\ calls[d].op # "stopAll"

\* C8 as stated: once a create() and a stop(id) called during its start have
\* both settled, the status of the tunnel is closed, and neither call threw
C8_StopDuringCreateCloses ==
    \A s \in DOMAIN calls :
        StopDuringCreateSettled(s)
        => /\ objs[calls[s].obj].status = "closed"
           /\ calls[s].ret = "true"
           /\ calls[calls[s].during].ret = "instance"

\* C9 as stated: over a create() and a stop(id) called during its start, the
\* kill() of the process handle of the tunnel is invoked exactly once
C9_KilledExactlyOnce ==
    \A s \in DOMAIN calls :
        (StopDuringCreateSettled(s) /\ calls[calls[s].during].proc # 0)
        => procs[calls[calls[s].during].proc].kills = 1

----------------------------------------------------------------------------
(* Statistics *)

\* C10: getStats().total is the number of records getAll() returns, and live
\* + error + closed + the number of records with status starting is total
C10_StatsConsistent ==
    /\ getStats.total = Cardinality(getAll)
    /\ getStats.live + getStats.error + getStats.closed + CountStatus("starting")
       = getStats.total

\* two instances were created, one record is tracked, and it is counted as live
C10_Witness ==
    /\ Len(objs) = 2
    /\ getStats.total = 1
    /\ getStats.live = 1
    /\ \E o \in DOMAIN objs : o \notin getAll /\ objs[o].status = "error"

----------------------------------------------------------------------------
(* delete() *)

\* the child processes and SDK sessions started for tunnel o that still run in P
RunningFor(P, o) == { h \in DOMAIN P : P[h].obj = o /\ P[h].alive }

\* C11 as stated: at the moment a record leaves the collection its provider's
\* stop has completed: the record's status is closed and its child process or
\* SDK session has been terminated.  (delete() does not await stop(id).)
C11_DeleteStopsFirst ==
    [][\A id \in DOMAIN tunnels :
          id \notin DOMAIN tunnels' =>
              /\ objs'[tunnels[id]].status = "closed"
              /\ RunningFor(procs', tunnels[id]) = {}]_vars

\* the step makes a call of delete()
DeleteCalled == Len(calls') = Len(calls) + 1 /\ NewCall.op = "delete"

\* C12: delete(id) returns true exactly when a record with that id was
\* tracked; when it returns get(id) is undefined and getAll() does not contain
\* the record, whatever its status was, and every other record is still tracked
C12_DeleteRemovesExactlyOne ==
    [][DeleteCalled =>
          LET id == NewCall.id IN
          /\ NewCall.ret \in {"true", "false"}
          /\ NewCall.ret = "true" <=> id \in DOMAIN tunnels
          /\ id \notin DOMAIN tunnels'        \* get(id) is undefined
          /\ id \in DOMAIN tunnels => tunnels[id] \notin getAll'
          /\ \A i \in DOMAIN tunnels \ {id} :
                i \in DOMAIN tunnels' /\ tunnels'[i] = tunnels[i]
          /\ DOMAIN tunnels' \subseteq DOMAIN tunnels]_vars

\* a delete() of a tracked record returned true, the record is gone and the
\* other record is still tracked
C12_Witness ==
    \E c \in DOMAIN calls :
        /\ calls[c].op = "delete" /\ calls[c].ret = "true"
        /\ get(calls[c].id) = 0
        /\ calls[c].obj \notin getAll
        /\ getAll # {}

----------------------------------------------------------------------------
(* stopAll() *)

\* the step in which a call of stopAll() resolves
StopAllResolves ==
    \E c \in DOMAIN calls' :
        /\ calls'[c].op = "stopAll" /\ calls'[c].pc = "done"
        /\ c \in DOMAIN calls => calls[c].pc # "done"

\* C13 as stated: once stopAll() has resolved, no child process or SDK session
\* started for a tracked tunnel is still running.  (The SIGINT handler exits
\* the server right after, so what runs at that moment is what is left behind.)
C13_NothingRunsAfterStopAll ==
    [][StopAllResolves => \A o \in getAll' : RunningFor(procs', o) = {}]_vars

\* the step makes a call of stopAll()
StopAllCalled == Len(calls') = Len(calls) + 1 /\ NewCall.op = "stopAll"

\* provider.stop ran for tunnel o in this step: its first log line was
\* appended and the kill()/close()/sdkTunnel.stop() of its handle was made
StopInvoked(o) ==
    /\ Len(objs'[o].logs) > Len(objs[o].logs)
    /\ objs'[o].logs[Len(objs[o].logs) + 1] = "Stopping tunnel..."
    /\ LET hs == {objs[o].process, objs[o].session} \ {0} IN
       hs # {} => \E h \in hs : procs'[h].kills = procs[h].kills + 1

\* the tracked tunnels whose stop suspends on sdkTunnel.stop()
Suspending ==
    { <<o, objs[o].session>> : o \in { x \in getAll :
          Impl(x) = "pinggy_sdk" /\ objs[x].session # 0 } }

\* C14: stopAll() never rejects; it invokes stop for every tunnel tracked at
\* the time of the call, also when the stop of another tunnel fails, and it
\* resolves exactly when every one of those stops has settled
C14_StopAllSettlesEveryStop ==
    [][/\ StopAllCalled =>
            /\ \A o \in getAll :
                  getProvider(objs[o].provider) # "throw" => StopInvoked(o)
            /\ NewCall.pending = Suspending
       /\ \A c \in DOMAIN calls' :
             calls'[c].op = "stopAll" =>
                /\ calls'[c].ret \in {"void", "pending"}
                /\ calls'[c].ret = "void" <=> calls'[c].pc = "done"
                /\ calls'[c].pc = "done" <=> calls'[c].pending = {}]_vars

\* a stopAll() resolved with two tracked tunnels: the stop of one has failed
\* (its kill() threw and its status is not closed), the other one is closed
C14_Witness ==
    \E c \in DOMAIN calls : \E o1, o2 \in getAll :
        /\ calls[c].op = "stopAll" /\ calls[c].pc = "done"
        /\ o1 # o2
        /\ objs[o1].status # "closed"
        /\ \E h \in DOMAIN procs :
              procs[h].obj = o1 /\ procs[h].alive /\ procs[h].kills > 0
        /\ objs[o2].status = "closed"
        /\ \E k \in DOMAIN objs[o2].logs : objs[o2].logs[k] = "Stopping tunnel..."

----------------------------------------------------------------------------
(* restart() *)

\* s is a prefix of t
IsPrefix(s, t) == Len(s) <= Len(t) /\ \A k \in 1..Len(s) : s[k] = t[k]

\* every step leaves the log of every tunnel a prefix of the log after it
LogsOnlyGrow == \A o \in DOMAIN objs : IsPrefix(objs[o].logs, objs'[o].logs)

\* the restarts of a tracked tunnel that have returned
RestartsDone ==
    { c \in DOMAIN calls :
        calls[c].op = "restart" /\ calls[c].obj # 0 /\ calls[c].pc = "done" }

RestartStep ==
    \/ Len(calls') = Len(calls) + 1 /\ NewCall.op = "restart"
    \/ \E c \in DOMAIN calls :
          calls[c].op = "restart" /\ calls'[c] # calls[c]

\* C16: restart(id) keeps the same record under the same id: no step changes
\* the config of a tunnel, and the steps of a restart leave the collection as
\* it is (the same ids, bound to the same records); the instance restart
\* returns is the record it looked up under the id
C16_RestartKeepsRecord ==
    [][/\ \A o \in DOMAIN objs : config(objs'[o]) = config(objs[o])
       /\ RestartStep => tunnels' = tunnels
       /\ \A c \in DOMAIN calls' :
             (calls'[c].op = "restart" /\ calls'[c].obj # 0) =>
                objs'[calls'[c].obj].id = calls'[c].id]_vars

\* a restart of a tracked tunnel has returned: the record is in its second
\* lifecycle segment and is still the one bound to its id
C16_Witness ==
    \E c \in RestartsDone :
        /\ calls[c].ret = "instance"
        /\ get(calls[c].id) = calls[c].obj
        /\ objs[calls[c].obj].seg = 2
        /\ DOMAIN tunnels = {calls[c].id}

\* C17: restart(id) on a tracked tunnel never rejects.  It runs the provider's
\* stop first and waits for it (every stop but the one of cloudflare.ts, which
\* can throw, has logged "Tunnel stopped" by then); before the provider's start is invoked the status is starting,
\* urls is empty and error is cleared; it resolves with the instance it looked
\* up, in status live or in status error with a message, and in status error
\* with the message of the failure when its start failed
C17_RestartContained ==
    \A c \in DOMAIN calls :
        (calls[c].op = "restart" /\ calls[c].obj # 0) =>
            LET o == calls[c].obj
                t == objs[o]
            IN
            /\ calls[c].ret \in {"pending", "instance"}
            /\ (calls[c].pc \in {"stopped", "reset"}
                    /\ getProvider(t.provider) # "throw") =>
                   /\ Len(t.logs) > calls[c].logged
                   /\ t.logs[calls[c].logged + 1] = "Stopping tunnel..."
                   /\ Impl(o) # "cf_base" =>
                          \E k \in calls[c].logged + 2 .. Len(t.logs) :
                              t.logs[k] = "Tunnel stopped"
            /\ calls[c].pc = "reset" =>
                   t.status = "starting" /\ t.urls = <<>> /\ t.error = Undefined
            /\ calls[c].pc = "done" =>
                   /\ calls[c].ret = "instance"
                   /\ calls[c].retStatus \in {"live", "error"}
                   /\ calls[c].retStatus = "error" =>
                          calls[c].retError \notin {Undefined, ""}
                   /\ calls[c].err.settled = "rejected" =>
                          /\ calls[c].retStatus = "error"
                          /\ calls[c].retError = ManagerErrorMessage(calls[c].err)

\* a tunnel that was live has been restarted, the start of the restart failed
\* and the restart returned the instance in status error
C17_Witness ==
    \E c \in RestartsDone :
        /\ calls[c].err.settled = "rejected"
        /\ calls[c].retStatus = "error"
        /\ \E k \in 1..calls[c].logged :
              objs[calls[c].obj].logs[k] = "Tunnel established!"

----------------------------------------------------------------------------
(* Records *)

\* C18: a tunnel whose status is live has at least one entry in its urls
\* list, for every provider and whether or not the record is still tracked
C18_LiveHasUrl ==
    \A o \in DOMAIN objs : objs[o].status = "live" => Len(objs[o].urls) >= 1

\* a tunnel in cloudflare's token mode is live again after a restart has
\* cleared its urls
C18_Witness ==
    \E o \in DOMAIN objs :
        /\ objs[o].status = "live" /\ objs[o].seg = 2
        /\ Impl(o) = "cf_token"
        /\ objs[o].urls = << "See Cloudflare Dashboard" >>

\* the create() calls that have returned after their start failed
FailedCreates ==
    { c \in DOMAIN calls :
        /\ calls[c].op = "create" /\ calls[c].pc = "done"
        /\ calls[c].err.settled = "rejected" \/ calls[c].retStatus = "error" }

\* no operation other than call c has been made on the id of c
NoFurtherOperationOn(c) ==
    NoOtherCallOn(c) /\ \A d \in DOMAIN calls : calls[d].op # "stopAll"

\* the record of every failed create() is still returned by get(id) and
\* getAll(), with status error and no urls, and getStats().error counts it,
\* as long as nothing else was done with its id
FailedCreateVisible ==
    \A c \in FailedCreates :
        NoFurtherOperationOn(c) =>
            /\ get(calls[c].id) = calls[c].obj
            /\ calls[c].obj \in getAll
            /\ objs[calls[c].obj].status = "error"
            /\ objs[calls[c].obj].urls = << >>
            /\ getStats.error >= 1

\* C19 as stated: a tunnel whose start fails during create() is never
\* dropped (the record stays visible with status error and empty urls and is
\* counted by getStats().error), and a record leaves the collection only
\* through a delete() of its id
C19_OnlyDeleteRemoves ==
    [][/\ FailedCreateVisible'
       /\ \A id \in DOMAIN tunnels :
             (id \notin DOMAIN tunnels' \/ tunnels'[id] # tunnels[id]) =>
                 DeleteCalled /\ NewCall.id = id]_vars

----------------------------------------------------------------------------
(* The create routes: POST /api/tunnels (form) and POST /api/v1/tunnels     *)
(* (JSON), as far as the port of the new record is concerned                *)

\* the digits of parseInt, by value
HexChars == << "0", "1", "2", "3", "4", "5", "6", "7", "8", "9",
               "a", "b", "c", "d", "e", "f" >>
IsDigit(ch, radix) == \E i \in 1..radix : HexChars[i] = ch
DigitValue(ch) == (CHOOSE i \in 1..16 : HexChars[i] = ch) - 1

\* parseInt, step 1: leading white space is skipped
RECURSIVE TrimStart(_)
TrimStart(s) == IF s # << >> /\ Head(s) = " " THEN TrimStart(Tail(s)) ELSE s

\* parseInt: the digits up to the first character that is not one;
\* [value, seen] with seen = whether there was any digit
RECURSIVE ParseDigits(_, _, _, _)
ParseDigits(s, radix, acc, seen) ==
    IF s # << >> /\ IsDigit(Head(s), radix)
    THEN ParseDigits(Tail(s), radix, acc * radix + DigitValue(Head(s)), TRUE)
    ELSE [value |-> acc, seen |-> seen]

\* parseInt(string) with no radix argument: sign, "0x" prefix, digits; NaN
\* when there is no digit
parseInt(chars) ==
    LET s0 == TrimStart(chars)
        sign == IF s0 # << >> /\ Head(s0) = "-" THEN -1 ELSE 1
        s1 == IF s0 # << >> /\ Head(s0) \in {"-", "+"} THEN Tail(s0) ELSE s0
        hex == Len(s1) >= 2 /\ s1[1] = "0" /\ s1[2] \in {"x", "X"}
        s2 == IF hex THEN Tail(Tail(s1)) ELSE s1
        r == ParseDigits(s2, IF hex THEN 16 ELSE 10, 0, FALSE)
    IN IF r.seen THEN JsNumber(sign * r.value) ELSE NaN

\* ToBoolean
Truthy(v) ==
    CASE v.type = "number" -> v.num # 0
      [] v.type = "string" -> v.str # << >>
      [] v.type = "boolean" -> v.num = 1
      [] OTHER -> FALSE

\* a || b
JsOr(a, b) == IF Truthy(a) THEN a ELSE b

\* api.ts line 152: parseInt(form.get("localPort") as string) || 3000
FormLocalPort(raw) == JsOr(parseInt(raw), JsNumber(3000))

\* api.ts line 236: payload.localPort || 3000
JsonLocalPort(v) == JsOr(v, JsNumber(3000))

\* the localPort fields a form is posted with, as character strings; a form
\* without the field gives null, which parseInt reads as "null"
FormInputs ==
    { << "8", "0", "8", "0" >>, << "1" >>, << "6", "5", "5", "3", "5" >>,
      << "6", "5", "5", "3", "6" >>, << "7", "0", "0", "0", "0" >>,
      << "0" >>, << "-", "5" >>, << " ", "8", "0" >>, << "1", "2", ".", "5" >>,
      << "0", "x", "1", "f" >>, << "a", "b", "c" >>, << >>,
      << "n", "u", "l", "l" >> }

\* the localPort members a JSON body is posted with
JsonInputs ==
    { JsNumber(8080), JsNumber(1), JsNumber(65535), JsNumber(65536),
      JsNumber(0), JsNumber(-1), JsFraction(7, 2),
      JsString(<< "8", "0" >>), JsString(<< >>),
      JsValue("boolean", 1, 1, << >>), JsValue("null", 0, 1, << >>),
      JsValue("undefined", 0, 1, << >>) }

\* tunnelManager.create(request), lines 16-39: the record is built from the
\* request and inserted; the start that follows does not write the config
RouteCreate(port) ==
    /\ Len(objs) < MaxPosts
    /\ now' = now + 1
    /\ LET id == generateId(now', "a")
           req == [ provider |-> "pinggy", token |-> NoToken,
                    cloudflareMode |-> "undefined", localPort |-> port ]
       IN /\ objs' = Append(objs, NewTunnel(id, req))
          /\ tunnels' = MapSet(tunnels, id, Len(objs) + 1)
    /\ UNCHANGED <<build, procs, calls, running>>
    /\ UNCHANGED scan

\* POST /api/tunnels, api.ts 120-166
PostForm(raw) == RouteCreate(FormLocalPort(raw))

\* POST /api/v1/tunnels, api.ts 215-250
PostJson(v) == RouteCreate(JsonLocalPort(v))

RoutesNext ==
    \/ \E raw \in FormInputs : PostForm(raw)
    \/ \E v \in JsonInputs : PostJson(v)

RoutesSpec == Init /\ [][RoutesNext]_vars

\* v is an integer in 1..65535
IsPort(v) == v.type = "number" /\ v.den = 1 /\ v.num \in 1..65535

\* C20 as stated: every record created through the form route or the JSON
\* route has a localPort that is an integer in the range 1 to 65535
C20_LocalPortInRange ==
    \A o \in DOMAIN objs : IsPort(objs[o].localPort)

----------------------------------------------------------------------------
(* The output scanner: waitForUrl(stream, patterns, timeoutMs), part_002    *)

\* the bytes of a stream: three ASCII letters and the two bytes of one
\* non-ASCII character
LeadByte == "C3"
ContByte == "A9"
Bytes == {"h", "a", "c", LeadByte, ContByte}

\* TextDecoder.decode(value, {stream: true}) on the bytes of one chunk;
\* `pending`: a lead byte of the previous chunk waits for its continuation.
\* A malformed sequence decodes to the replacement character "?"
RECURSIVE decode(_, _, _)
decode(bytes, pending, out) ==
    IF bytes = << >> THEN [text |-> out, pending |-> pending]
    ELSE LET b == Head(bytes) IN
         IF pending
         THEN IF b = ContByte
              THEN decode(Tail(bytes), FALSE, Append(out, "e'"))
              ELSE decode(bytes, FALSE, Append(out, "?"))
         ELSE IF b = LeadByte THEN decode(Tail(bytes), TRUE, out)
         ELSE IF b = ContByte THEN decode(Tail(bytes), FALSE, Append(out, "?"))
         ELSE decode(Tail(bytes), FALSE, Append(out, b))

\* the patterns: pre, then one or more characters of cls, then suf
\* (the shape of /https:\/\/[a-z0-9-]+\.trycloudflare\.com/)
PLong == [pre |-> << "h" >>, cls |-> {"a"}, suf |-> << "c" >>]
PShort == [pre |-> << "h" >>, cls |-> {"a"}, suf |-> << >>]
PatternLists == { << PLong >>, << PShort, PLong >>, << PLong, PShort >> }

\* the word w stands in buf at position i
WordAt(buf, w, i) ==
    /\ i + Len(w) - 1 <= Len(buf)
    /\ \A k \in 1..Len(w) : buf[i + k - 1] = w[k]

\* pattern p matches buf at position i with n characters of its class
MatchesAt(buf, p, i, n) ==
    /\ WordAt(buf, p.pre, i)
    /\ i + Len(p.pre) + n - 1 <= Len(buf)
    /\ \A k \in 0..(n - 1) : buf[i + Len(p.pre) + k] \in p.cls
    /\ WordAt(buf, p.suf, i + Len(p.pre) + n)

\* null, the result of a match that fails
Null == << >>

\* buffer.match(pattern)[0]: the leftmost match, the quantifier greedy; Null
\* when there is none
match(buf, p) ==
    LET starts == { i \in 1..Len(buf) : \E n \in 1..Len(buf) : MatchesAt(buf, p, i, n) }
    IN IF starts = {} THEN Null
       ELSE LET i == CHOOSE x \in starts : \A y \in starts : x <= y
                ns == { n \in 1..Len(buf) : MatchesAt(buf, p, i, n) }
                n == CHOOSE x \in ns : \A y \in ns : x >= y
            IN SubSeq(buf, i, i + Len(p.pre) + n + Len(p.suf) - 1)

\* a scan that prefers the pattern that comes last in the list
RECURSIVE MatchOfLastPattern(_, _)
MatchOfLastPattern(buf, patterns) ==
    IF patterns = << >> THEN Null
    ELSE IF match(buf, patterns[Len(patterns)]) # Null
    THEN match(buf, patterns[Len(patterns)])
    ELSE MatchOfLastPattern(buf, SubSeq(patterns, 1, Len(patterns) - 1))

\* lines 36-44: the patterns are tried in list order, the first match counts
RECURSIVE FirstMatch(_, _)
FirstMatch(buf, patterns) ==
    IF patterns = << >> THEN Null
    ELSE IF match(buf, Head(patterns)) # Null THEN match(buf, Head(patterns))
    ELSE FirstMatch(buf, Tail(patterns))

\* the promise waitForUrl returns
PendingPromise == [state |-> "pending", value |-> Null, error |-> ""]
Resolved(v) == [state |-> "resolved", value |-> v, error |-> ""]
Rejected(msg) == [state |-> "rejected", value |-> Null, error |-> msg]

\* a promise whose last resolve/reject call counts
SettleAgain(p, outcome) == outcome

\* resolve(...) / reject(...): only the first call settles the promise
Settle(p, outcome) == IF p.state = "pending" THEN outcome ELSE p

\* clearTimeout(timeout)
clearTimeout(t) == IF t = "pending" THEN "cleared" ELSE t

\* the streams: up to MaxChunks chunks of 1..MaxChunkLen bytes
Chunks == UNION { [1..n -> Bytes] : n \in 1..MaxChunkLen }
Streams == UNION { [1..n -> Chunks] : n \in 0..MaxChunks }

\* how a stream goes on after its chunks: it ends, it stays open and silent,
\* or reader.read() rejects
Endings == {"eof", "open", "error"}

\* waitForUrl has been called (lines 14-23, 53): the timer is set and the
\* reader waits for the first chunk.  History only: conditions (the terminal
\* conditions met so far, in order)
NewScan(chunks, ending, patterns) ==
    [ pc |-> "reading", chunks |-> chunks, ending |-> ending, patterns |-> patterns,
      read |-> 0, buffer |-> << >>, partial |-> FALSE,
      timer |-> "pending", promise |-> PendingPromise, conditions |-> << >> ]

ScanInit ==
    /\ build = [pinggy |-> "unused", cloudflare |-> "unused"]
    /\ now = 0
    /\ objs = << >>
    /\ tunnels = << >>
    /\ procs = << >>
    /\ calls = << >>
    /\ running = 0
    /\ scan \in { NewScan(chunks, ending, patterns) :
                    chunks \in Streams, ending \in Endings, patterns \in PatternLists }

\* a done that resolves with what has been read
DoneResolvesBuffer(s) ==
    [s EXCEPT !.timer = clearTimeout(@), !.pc = "stopped",
              !.promise = Settle(@, Resolved(s.buffer)),
              !.conditions = Append(@, "eof")]

\* lines 28-32: done
OnDone(s) ==
    [s EXCEPT !.timer = clearTimeout(@), !.pc = "stopped",
              !.promise = Settle(@, Rejected("Stream ended without finding URL")),
              !.conditions = Append(@, "eof")]

\* a timer that fires without rejecting
TimeoutIgnored(s) == [s EXCEPT !.timer = "fired"]

\* lines 18-20: the timer's callback
OnTimeout(s) ==
    [s EXCEPT !.timer = "fired",
              !.promise = Settle(@, Rejected("Timeout waiting for tunnel URL")),
              !.conditions = Append(@, "timeout")]

\* lines 27, 34-45: reader.read() gives a chunk
ReadChunk ==
    /\ scan.pc = "reading"
    /\ scan.read < Len(scan.chunks)
    /\ LET d == decode(scan.chunks[scan.read + 1], scan.partial, << >>)
           buf == scan.buffer \o d.text
           m == FirstMatch(buf, scan.patterns)
           s1 == [scan EXCEPT !.read = @ + 1, !.buffer = buf, !.partial = d.pending]
       IN scan' = IF m = Null THEN s1
                  ELSE [s1 EXCEPT !.timer = clearTimeout(@), !.pc = "stopped",
                                  !.promise = Settle(@, Resolved(m)),
                                  !.conditions = Append(@, "match")]
    /\ UNCHANGED <<build, now, objs, tunnels, procs, calls, running>>

\* lines 27-32: reader.read() gives done
ReadDone ==
    /\ scan.pc = "reading"
    /\ scan.read = Len(scan.chunks)
    /\ scan.ending = "eof"
    /\ scan' = OnDone(scan)
    /\ UNCHANGED <<build, now, objs, tunnels, procs, calls, running>>

\* lines 27, 46-50: reader.read() rejects
ReadError ==
    /\ scan.pc = "reading"
    /\ scan.read = Len(scan.chunks)
    /\ scan.ending = "error"
    /\ scan' = [scan EXCEPT !.timer = clearTimeout(@), !.pc = "stopped",
                            !.promise = Settle(@, Rejected("read failed")),
                            !.conditions = Append(@, "error")]
    /\ UNCHANGED <<build, now, objs, tunnels, procs, calls, running>>

\* lines 18-20: timeoutMs have passed
TimerFires ==
    /\ scan.pc # "none"
    /\ scan.timer = "pending"
    /\ scan' = OnTimeout(scan)
    /\ UNCHANGED <<build, now, objs, tunnels, procs, calls, running>>

ScanNext == ReadChunk \/ ReadDone \/ ReadError \/ TimerFires

ScannerSpec == ScanInit /\ [][ScanNext]_vars

\* setTimeout: a timer that is not cleared fires
ScannerFairSpec == ScannerSpec /\ WF_vars(TimerFires)

----------------------------------------------------------------------------
(* Properties of waitForUrl *)

\* the bytes of the first k chunks of the stream, and their text
RECURSIVE BytesUpTo(_)
BytesUpTo(k) == IF k = 0 THEN << >> ELSE BytesUpTo(k - 1) \o scan.chunks[k]
TextUpTo(k) == decode(BytesUpTo(k), FALSE, << >>).text

\* the patterns of the list that match the text of the first k chunks
Matching(k) ==
    { j \in 1..Len(scan.patterns) : match(TextUpTo(k), scan.patterns[j]) # Null }

\* the chunks after which some pattern matches the accumulated text
MatchingChunks == { k \in 1..Len(scan.chunks) : Matching(k) # {} }

\* the first of them, and the match of the first pattern in list order there
FirstMatchingChunk == CHOOSE k \in MatchingChunks : \A x \in MatchingChunks : k <= x
ExpectedMatch ==
    LET k == FirstMatchingChunk
        j == CHOOSE x \in Matching(k) : \A y \in Matching(k) : x <= y
    IN match(TextUpTo(k), scan.patterns[j])

\* C21: waitForUrl resolves at the first chunk after which a pattern matches
\* the accumulated text (it reads no further chunk), with the match of the
\* pattern that comes first in the list, unless its timer has fired before;
\* the value it resolves with is that function of chunks and patterns only
C21_ResolvesWithFirstMatch ==
    /\ scan.promise.state = "resolved" =>
          /\ MatchingChunks # {}
          /\ scan.read = FirstMatchingChunk
          /\ scan.promise.value = ExpectedMatch
    /\ MatchingChunks # {} =>
          /\ scan.read <= FirstMatchingChunk
          /\ scan.read = FirstMatchingChunk =>
                /\ scan.pc = "stopped"
                /\ scan.conditions[1] = "match" => scan.promise = Resolved(ExpectedMatch)
                /\ scan.conditions[1] # "match" => scan.conditions = << "timeout", "match" >>
    /\ MatchingChunks = {} => scan.promise.state # "resolved"

\* a match that spans two chunks, at a chunk where both patterns match with
\* different substrings: the result is the match of the first pattern of the list
C21_Witness ==
    /\ scan.patterns = << PLong, PShort >>
    /\ scan.chunks = << << "h" >>, << "a", "c" >> >>
    /\ scan.promise = Resolved(<< "h", "a", "c" >>)
    /\ match(scan.buffer, PShort) = << "h", "a" >>

\* the terminal condition that was met first, or "none"
FirstCondition == IF scan.conditions = << >> THEN "none" ELSE scan.conditions[1]

\* C22: when the stream ends before a pattern has matched and before the
\* timer has fired, waitForUrl is rejected with the stream-ended error, and
\* it stays so: it never resolves with a value
C22_EofRejects ==
    /\ FirstCondition = "eof" =>
          scan.promise = Rejected("Stream ended without finding URL")
    /\ (scan.ending = "eof" /\ MatchingChunks = {}) =>
          scan.promise.state # "resolved"

\* a stream of two chunks has ended without a match and before the timer fired
C22_Witness ==
    /\ scan.conditions = << "eof" >>
    /\ scan.read = 2
    /\ scan.timer = "cleared"
    /\ scan.promise = Rejected("Stream ended without finding URL")

\* the stream never matches any pattern and never ends
NeverMatchesNeverEnds == scan.pc # "none" /\ scan.ending = "open" /\ MatchingChunks = {}

TimedOut == scan.promise = Rejected("Timeout waiting for tunnel URL")

\* C23: on a stream that never matches any pattern and never ends, waitForUrl
\* is eventually rejected with the timeout error (its timer fires) and does
\* not stay pending forever
C23_TimeoutRejects == NeverMatchesNeverEnds ~> TimedOut

\* the timer has fired on a stream that gave two chunks without a match and
\* is still open, and the promise is rejected with the timeout error
C23_Witness ==
    /\ NeverMatchesNeverEnds
    /\ scan.read = 2
    /\ scan.pc = "reading"
    /\ scan.timer = "fired"
    /\ TimedOut

\* the outcome that belongs to a terminal condition
OutcomeOf(condition) ==
    CASE condition = "match" -> scan.promise.state = "resolved"
      [] condition = "eof" -> scan.promise = Rejected("Stream ended without finding URL")
      [] condition = "timeout" -> TimedOut
      [] condition = "error" -> scan.promise = Rejected("read failed")
      [] OTHER -> scan.promise = PendingPromise

\* C24: waitForUrl settles exactly once, with the outcome of the first
\* condition that occurs (match, timeout, EOF or read error): the promise is
\* pending until then, a settled promise never changes, and once it is
\* settled its timer is no longer pending (cleared after a match, EOF or read
\* error, fired after a timeout)
C24_FirstConditionWins ==
    [][/\ scan.promise.state # "pending" => scan'.promise = scan.promise
       /\ OutcomeOf(FirstCondition)'
       /\ (FirstCondition \in {"match", "eof", "error"})' => scan'.timer = "cleared"
       /\ (FirstCondition = "timeout")' => scan'.timer = "fired"]_vars

\* the timer fired first and the reader found a match afterwards: the
\* promise is still rejected with the timeout error
C24_Witness ==
    /\ scan.pc # "none"
    /\ scan.conditions = << "timeout", "match" >>
    /\ TimedOut
    /\ scan.timer = "fired"

----------------------------------------------------------------------------
(* The registry: getProvider(name), part_003 *)

\* the names getProvider is called with: the registered keys, names of
\* inherited properties, and names that are no property at all
Names == providers \cup ObjectPrototype \cup {"bogus", "Pinggy", ""}

\* a call of getProvider(name) and what it returned ("throw": it threw)
Lookup(name) ==
    /\ Len(calls) < MaxLookups
    /\ calls' = Append(calls, [op |-> "getProvider", name |-> name,
                               ret |-> getProvider(name)])
    /\ UNCHANGED <<build, now, objs, tunnels, procs, running, scan>>

RegistrySpec ==
    Init /\ [][\E name \in Names : Lookup(name)]_vars

\* C25 as stated: getProvider(name) returns the implementation registered
\* under name for each of the four registered keys and throws for every
\* other name
C25_ThrowsForEveryOtherName ==
    \A c \in DOMAIN calls :
        /\ calls[c].name \in {"pinggy", "cloudflare", "ngrok", "localtunnel"}
              => calls[c].ret = calls[c].name
        /\ calls[c].name \notin {"pinggy", "cloudflare", "ngrok", "localtunnel"}
              => calls[c].ret = "throw"

----------------------------------------------------------------------------
(* The deadline of a start: a process that stays alive and never writes the
   awaited output.  pinggy (ssh) waits in waitForUrls (part_004 196-242), the
   cloudflare providers in waitForUrl, waitForCloudflareUrl and
   waitForConnection, which arm a timer (part_002 18-20, part_005 495-497 and
   565-567) *)

\* the starts that scan the output of a process
Scanning == {"pinggy_ssh", "cf_base", "cf_quick", "cf_token"}

\* the scanners that reject from a timer; waitForUrls has none and compares
\* the clock at the top of its loop (part_004 208)
HasTimer(impl) == impl # "pinggy_ssh"

\* create() or restart() has called start(), which has spawned the process and
\* is suspended in the first reader.read() of its scanner.  quiet: the chunks
\* the process will write, none with the awaited output; elapsed: the timeout
\* has passed since the scanner was entered
NewWait(op, impl, quiet) ==
    [pc |-> "reading", op |-> op, impl |-> impl, quiet |-> quiet, read |-> 0,
     elapsed |-> FALSE, timer |-> IF HasTimer(impl) THEN "set" ELSE "none",
     alive |-> TRUE, status |-> "starting", error |-> "", thrown |-> NoErr,
     logs |-> << >>]

WaitInit ==
    /\ build = [pinggy |-> "unused", cloudflare |-> "unused"]
    /\ now = 0
    /\ objs = << >>
    /\ tunnels = << >>
    /\ procs = << >>
    /\ calls = << >>
    /\ running = 0
    /\ scan \in {NewWait(op, impl, quiet) :
                    op \in {"create", "restart"}, impl \in Scanning,
                    quiet \in 0..MaxQuiet}

\* the timeout passes (30 s; 60 s for the quick tunnel)
DeadlineElapses ==
    /\ scan.pc = "reading"
    /\ ~scan.elapsed
    /\ scan' = [scan EXCEPT !.elapsed = TRUE]
    /\ UNCHANGED <<build, now, objs, tunnels, procs, calls, running>>

\* reader.read() returns a chunk; it has no URL and no connection line.  The
\* timer scanners loop on (while (true)); waitForUrls evaluates
\* Date.now() - startTime < timeout (part_004 208) and returns its empty list
\* once that is false
QuietChunk ==
    /\ scan.pc = "reading"
    /\ scan.read < scan.quiet
    /\ scan' = [scan EXCEPT !.read = @ + 1,
                            !.pc = IF ~HasTimer(scan.impl) /\ scan.elapsed
                                   THEN "ended" ELSE @]
    /\ UNCHANGED <<build, now, objs, tunnels, procs, calls, running>>

\* the timer of a timer scanner fires and rejects its promise
WaitTimeout ==
    /\ scan.pc = "reading"
    /\ scan.timer = "set"
    /\ scan.elapsed
    /\ scan' = [scan EXCEPT !.timer = "fired", !.pc = "ended"]
    /\ UNCHANGED <<build, now, objs, tunnels, procs, calls, running>>

\* start() after its scanner ended without a URL: pinggy (ssh) kills the
\* process, sets status error and throws (part_004 174-178); the cloudflare
\* providers kill the process, log and rethrow the timeout (cloudflare.ts
\* 39-43, part_005 123-132 and 309-313)
StartFails ==
    /\ scan.pc = "ended"
    /\ LET e == IF HasTimer(scan.impl)
                THEN Err(ScanFailure(scan.impl, "timeout"))
                ELSE Err("Failed to get tunnel URL from Pinggy")
           line == IF HasTimer(scan.impl)
                   THEN "ERROR: " \o ScanFailure(scan.impl, "timeout")
                   ELSE "ERROR: Failed to get tunnel URL"
       IN scan' = [scan EXCEPT !.pc = "thrown", !.alive = FALSE, !.thrown = e,
                               !.status = IF HasTimer(scan.impl) THEN @ ELSE "error",
                               !.logs = Append(@, line)]
    /\ UNCHANGED <<build, now, objs, tunnels, procs, calls, running>>

\* the catch of create() and restart() (tunnel-manager.ts 44-47 and 79-82),
\* and their return
WaitCaught ==
    /\ scan.pc = "thrown"
    /\ scan' = [scan EXCEPT !.pc = "returned", !.status = "error",
                            !.error = ManagerErrorMessage(scan.thrown)]
    /\ UNCHANGED <<build, now, objs, tunnels, procs, calls, running>>

WaitNext ==
    \/ DeadlineElapses
    \/ QuietChunk
    \/ WaitTimeout
    \/ StartFails
    \/ WaitCaught

\* time passes, a written chunk is delivered, a due timer is run and a
\* continuation that is ready is run
DeadlineSpec ==
    /\ WaitInit /\ [][WaitNext]_vars
    /\ WF_vars(DeadlineElapses)
    /\ WF_vars(QuietChunk)
    /\ WF_vars(WaitTimeout)
    /\ WF_vars(StartFails)
    /\ WF_vars(WaitCaught)

\* C26: a start whose process never writes the awaited output and never
\* exits ends in failure once the deadline has passed: the record gets status
\* error and create()/restart() returns
C26_DeadlineEndsEveryStart ==
    <>(scan.pc = "returned" /\ scan.status = "error")

----------------------------------------------------------------------------
(* The stop and the start of the providers *)

\* the step runs the stop of o's provider from its first line to its return
\* (the SDK session's stop, which suspends, is left out)
StopRan(o) ==
    /\ Len(objs'[o].logs) > Len(objs[o].logs)
    /\ objs'[o].logs[Len(objs[o].logs) + 1] = "Stopping tunnel..."
    /\ ~(Impl(o) = "pinggy_sdk" /\ objs[o].session # 0)

\* C27 as stated: a provider's stop does not reject, also without a handle and
\* when killing the handle throws, and on return the status is closed and the
\* last log line is "Tunnel stopped"
C27_ProviderStopNeverRejects ==
    [][\A o \in DOMAIN objs :
          StopRan(o)
          => /\ objs'[o].status = "closed"
             /\ objs'[o].logs[Len(objs'[o].logs)] = "Tunnel stopped"
             /\ (Len(calls') = Len(calls) + 1 /\ NewCall.op = "stop")
                   => NewCall.ret = "true"]_vars

\* C29 as stated: a provider's start that fails sets status error and the
\* error message and rejects; none reports its failure by returning normally
C29_FailedStartSetsErrorAndRejects ==
    [][\A c \in DOMAIN calls :
          calls[c].pc = "await"
          => /\ calls'[c].pc = "rejected"
                   => /\ objs'[calls[c].obj].status = "error"
                      /\ objs'[calls[c].obj].error # "undefined"
             /\ calls'[c].pc = "done"
                   => objs'[calls[c].obj].status # "error"]_vars

\* tunnel o has status error and no error message
ErrorWithoutMessage(o) ==
    objs[o].status = "error" /\ objs[o].error \in {Undefined, ""}

C33_FailedStartKillsChild ==
    \A c \in DOMAIN calls :
        (/\ calls[c].op \in {"create", "restart"}
         /\ calls[c].pc = "done"
         /\ calls[c].retStatus = "error"
         /\ calls[c].proc # 0)
        => ~procs[calls[c].proc].alive

\* C34 as stated: every process or session that is running was started for a
\* record that is still in the collection and is the handle that record holds
C34_RunningHandleIsOwned ==
    \A h \in DOMAIN procs :
        procs[h].alive
        => /\ procs[h].obj \in getAll
           /\ h \in {objs[procs[h].obj].process, objs[procs[h].obj].session}

\* C35: a tunnel whose status is starting has no URL and no error message,
\* in every state; what an earlier lifecycle segment left is never seen
\* together with status starting
C35_StartingIsClean ==
    \A o \in DOMAIN objs :
        objs[o].status = "starting"
        => objs[o].urls = << >> /\ objs[o].error = Undefined

\* a tunnel that was live with a URL has been restarted and is starting again
C35_Witness ==
    \E c \in DOMAIN calls :
        /\ calls[c].op = "restart"
        /\ calls[c].pc = "await"
        /\ objs[calls[c].obj].status = "starting"
        /\ objs[calls[c].obj].urls = << >>
        /\ \E i \in DOMAIN objs[calls[c].obj].logs :
              objs[calls[c].obj].logs[i] \in {"Tunnel established!",
                                              "Tunnel established successfully!"}

\* C36 as stated: the URLs recorded on an ngrok tunnel are those served by
\* its own process, also when two ngrok tunnels exist at the same time
C36_NgrokUrlsAreItsOwn ==
    \A o \in DOMAIN objs :
        (objs[o].provider = "ngrok" /\ objs[o].urls # << >>)
        => objs[o].urls = << Url(objs[o].process) >>

----------------------------------------------------------------------------
(* ngrok's polling loop, attempt by attempt (ngrok.ts 50-82) *)

\* what an attempt's fetch of http://127.0.0.1:4040/api/tunnels gives: the
\* fetch or response.json() throws, or the public_url of the listed tunnels
Refused == [ok |-> FALSE, tunnels |-> << >>]
Listed(urls) == [ok |-> TRUE, tunnels |-> urls]
Answers ==
    {Refused, Listed(<< >>), Listed(<< "https://ngrok" >>),
     Listed(<< "https://ngrok", "http://ngrok" >>)}

ngrokFailure == "Failed to get tunnel URL from ngrok. Make sure authtoken is valid."

\* start() has spawned ngrok and logged "Waiting for ngrok API..." (line 51).
\* answers: the answers of the attempts made so far
NewPoll ==
    [pc |-> "polling", answers |-> << >>, status |-> "starting", urls |-> << >>,
     error |-> "", process |-> 1, logs |-> << "Waiting for ngrok API..." >>]

PollInit ==
    /\ build = [pinggy |-> "unused", cloudflare |-> "unused"]
    /\ now = 0
    /\ objs = << >>
    /\ tunnels = << >>
    /\ procs = << >>
    /\ calls = << >>
    /\ running = 0
    /\ scan = NewPoll

\* a poll that marks the tunnel live at a non-empty answer and polls on
PollPastAnswer(s, answer) ==
    LET n == Len(s.answers) + 1
        s1 == [s EXCEPT !.answers = Append(@, answer),
                        !.logs = Append(@, "Attempt " \o ToString(n) \o "/10...")]
    IN IF answer.ok /\ Len(answer.tunnels) > 0
       THEN [s1 EXCEPT !.urls = answer.tunnels, !.status = "live"]
       ELSE s1

\* one pass of the loop body, lines 53-74, and, when it was the last pass
\* without a tunnel, the code after the loop, lines 76-82
Poll(s, answer) ==
    LET n == Len(s.answers) + 1
        s1 == [s EXCEPT !.answers = Append(@, answer),
                        !.logs = Append(@, "Attempt " \o ToString(n) \o "/10...")]
    IN IF answer.ok /\ Len(answer.tunnels) > 0
       THEN [s1 EXCEPT !.urls = answer.tunnels, !.status = "live", !.pc = "returned",
                       !.logs = @ \o << "Tunnel established!" >>
                                  \o [i \in 1..Len(answer.tunnels) |->
                                         "URL: " \o answer.tunnels[i]]]
       ELSE IF n < maxAttempts THEN s1
       ELSE IF s1.process # 0
       THEN [s1 EXCEPT !.status = "error", !.error = ngrokFailure, !.pc = "returned",
                       !.logs = Append(@, "ERROR: " \o ngrokFailure)]
       ELSE [s1 EXCEPT !.pc = "returned"]

\* the loop sleeps a second, logs the attempt and fetches the inspector API
PollAttempt(answer) ==
    /\ scan.pc = "polling"
    /\ scan' = Poll(scan, answer)
    /\ UNCHANGED <<build, now, objs, tunnels, procs, calls, running>>

PollSpec ==
    PollInit /\ [][\E answer \in Answers : PollAttempt(answer)]_vars

\* the answer lists no tunnel, or the attempt threw
Unanswered(answer) == ~answer.ok \/ Len(answer.tunnels) = 0

\* C28: ngrok's start polls the inspector at most 10 times; while it polls
\* every attempt so far was refused or empty; the first non-empty answer sets
\* the URLs and status live and ends the loop; the tenth attempt without a
\* tunnel ends it with status error and an error message
C28_PollsAtMostTenTimes ==
    /\ Len(scan.answers) <= maxAttempts
    /\ \A i \in 1..(Len(scan.answers) - 1) : Unanswered(scan.answers[i])
    /\ scan.pc = "polling"
          => /\ Len(scan.answers) < maxAttempts
             /\ \A i \in 1..Len(scan.answers) : Unanswered(scan.answers[i])
             /\ scan.status = "starting" /\ scan.urls = << >>
    /\ scan.pc = "returned"
          => LET last == scan.answers[Len(scan.answers)]
             IN IF Unanswered(last)
                THEN /\ Len(scan.answers) = maxAttempts
                     /\ scan.status = "error"
                     /\ scan.error # ""
                     /\ scan.urls = << >>
                ELSE /\ scan.status = "live"
                     /\ scan.urls = last.tunnels
                     /\ scan.error = ""

\* ten attempts were made and none listed a tunnel
C28_Witness ==
    /\ scan.pc = "returned"
    /\ Len(scan.answers) = maxAttempts
    /\ scan.status = "error"
    /\ \E i \in 1..maxAttempts : ~scan.answers[i].ok
    /\ \E i \in 1..maxAttempts : scan.answers[i].ok

----------------------------------------------------------------------------
(* The config create() builds from a request, and the mode the cloudflare
   provider of part_005 derives from it (tunnel-manager.ts 19-29, part_005
   41-59) *)

\* the cloudflare requests of the two create routes: the mode is one of the
\* three or absent (api.ts 31-44 and 134-146), the other fields are optional
EdgeRequests ==
    [ provider : {"cloudflare"}, token : {NoToken, "tokA"},
      cloudflareMode : {"undefined", "quick", "local", "token"},
      cloudflareTunnelName : {"undefined", "my-app"},
      cloudflareDomain : {"undefined", "app.example.com"},
      localPort : {JsNumber(3000)} ]

\* const mode = config.cloudflareMode || (config.token || ENV_TUNNEL_TOKEN ?
\* "token" : "quick"), part_005 41-42 (CLOUDFLARE_TUNNEL_TOKEN is not set)
StartMode(t) ==
    IF t.cloudflareMode # "undefined" THEN t.cloudflareMode
    ELSE IF t.token # NoToken THEN "token" ELSE "quick"

\* create(request) up to provider.start, and the branch start takes (part_005
\* 46-58).  The call keeps the request (history)
ConfigCreate(req) ==
    /\ Len(objs) < MaxConfigs
    /\ now' = now + 1
    /\ LET id == generateId(now', "a")
           o == Len(objs) + 1
           t == NewTunnel(id, req)
       IN /\ objs' = Append(objs, t)
          /\ tunnels' = MapSet(tunnels, id, o)
          /\ calls' = Append(calls, [op |-> "create", id |-> id, obj |-> o,
                                     request |-> req, mode |-> StartMode(t)])
    /\ UNCHANGED <<build, procs, running, scan>>

ConfigSpec ==
    Init /\ [][\E req \in EdgeRequests : ConfigCreate(req)]_vars

\* C31 as stated: create(request) carries the request's cloudflareMode,
\* cloudflareTunnelName and cloudflareDomain into the config of the instance,
\* and a request with cloudflareMode local or token starts in that mode
C31_EdgeFieldsReachConfig ==
    \A c \in DOMAIN calls :
        LET req == calls[c].request
            t == objs[calls[c].obj]
        IN /\ t.cloudflareMode = req.cloudflareMode
           /\ t.cloudflareTunnelName = req.cloudflareTunnelName
           /\ t.cloudflareDomain = req.cloudflareDomain
           /\ req.cloudflareMode \in {"local", "token"}
                 => calls[c].mode = req.cloudflareMode

----------------------------------------------------------------------------
(* pinggy (ssh): waitForUrls chunk by chunk and the branch of start() that
   follows it (part_004 168-179 and 196-242); the 30 s have not passed *)

\* what a chunk of the ssh output holds: one of the two URLs pinggy prints,
\* the line "You can access ...", or other text
HttpUrl == "http://abc.a.free.pinggy.link"
HttpsUrl == "https://abc.a.free.pinggy.link"
Marker == "You can access"
SshChunks == {HttpUrl, HttpsUrl, Marker, "Warning: Permanently added"}

\* the outputs of the process: the chunks it writes before stdout ends
SshStreams == UNION { [1..n -> SshChunks] : n \in 0..MaxSshChunks }

\* the matches of the URL pattern in the buffer that are not yet in urls, in
\* the order of the buffer (lines 217-223)
RECURSIVE CollectUrls(_, _, _)
CollectUrls(buffer, i, urls) ==
    IF i > Len(buffer) THEN urls
    ELSE LET u == buffer[i]
             known == \E j \in 1..Len(urls) : urls[j] = u
         IN CollectUrls(buffer, i + 1,
                        IF u \in {HttpUrl, HttpsUrl} /\ ~known
                        THEN Append(urls, u) ELSE urls)

\* the two conditions under which waitForUrls returns from inside its loop
\* (lines 226-235)
Complete(buffer, urls) ==
    \/ Len(urls) >= 2
    \/ Len(urls) > 0 /\ \E i \in 1..Len(buffer) : buffer[i] = Marker

\* start() is suspended in waitForUrls, which awaits its first read
NewSshScan(stream) ==
    [pc |-> "reading", stream |-> stream, read |-> 0, buffer |-> << >>,
     urls |-> << >>, how |-> "", status |-> "starting", tunnelUrls |-> << >>,
     alive |-> TRUE, thrown |-> NoErr, logs |-> << >>]

SshInit ==
    /\ build = [pinggy |-> "ssh", cloudflare |-> "unused"]
    /\ now = 0
    /\ objs = << >>
    /\ tunnels = << >>
    /\ procs = << >>
    /\ calls = << >>
    /\ running = 0
    /\ scan \in {NewSshScan(stream) : stream \in SshStreams}

\* reader.read() gives a chunk, lines 209-236
SshRead ==
    /\ scan.pc = "reading"
    /\ scan.read < Len(scan.stream)
    /\ LET buffer == Append(scan.buffer, scan.stream[scan.read + 1])
           urls == CollectUrls(buffer, 1, scan.urls)
       IN scan' = [scan EXCEPT !.read = @ + 1, !.buffer = buffer, !.urls = urls,
                               !.pc = IF Complete(buffer, urls) THEN "returned" ELSE @,
                               !.how = IF Complete(buffer, urls) THEN "complete" ELSE @]
    /\ UNCHANGED <<build, now, objs, tunnels, procs, calls, running>>

\* reader.read() gives done: break, and return urls (lines 210 and 241)
SshDone ==
    /\ scan.pc = "reading"
    /\ scan.read = Len(scan.stream)
    /\ scan' = [scan EXCEPT !.pc = "returned", !.how = "eof", !.alive = FALSE]
    /\ UNCHANGED <<build, now, objs, tunnels, procs, calls, running>>

\* start() after waitForUrls returned, lines 168-179
AfterWaitForUrls(s) ==
    IF Len(s.urls) > 0
    THEN [s EXCEPT !.pc = "resolved", !.tunnelUrls = s.urls, !.status = "live",
                   !.logs = << "Tunnel established successfully!" >>
                            \o [i \in 1..Len(s.urls) |-> "URL: " \o s.urls[i]]]
    ELSE [s EXCEPT !.pc = "rejected", !.alive = FALSE, !.status = "error",
                   !.logs = << "ERROR: Failed to get tunnel URL" >>,
                   !.thrown = Err("Failed to get tunnel URL from Pinggy")]

SshContinue ==
    /\ scan.pc = "returned"
    /\ scan' = AfterWaitForUrls(scan)
    /\ UNCHANGED <<build, now, objs, tunnels, procs, calls, running>>

SshNext ==
    \/ SshRead
    \/ SshDone
    \/ SshContinue

SshSpec == SshInit /\ [][SshNext]_vars

\* C32 as stated: when the output of the ssh process ends before two URLs, or
\* one URL and the "You can access" line, were read, start() fails and the
\* tunnel is not marked live
C32_EofFailsStart ==
    (scan.how = "eof" /\ scan.pc \in {"resolved", "rejected"})
    => scan.pc = "rejected" /\ scan.status = "error"

----------------------------------------------------------------------------
(* The log lines a start writes from its secrets (part_004 10-17 and
   109-166, ngrok.ts 9-51, part_005 267-284).  A text is the sequence of its
   pieces; a secret is the sequence of its characters, << >> when it is not
   given (PINGGY_TOKEN, PINGGY_PASSWORD, NGROK_AUTHTOKEN and
   CLOUDFLARE_TUNNEL_TOKEN are not set) *)

Tokens == {<< >>, << "a", "b", "c", "d", "e" >>, << "a", "b", "c", "d", "f" >>,
           << "x", "y", "c", "d", "e" >>}
Passwords == {<< >>, << "p", "1" >>, << "p", "2" >>}

\* String.prototype.slice(0, n)
slice(str, n) == SubSeq(str, 1, IF n < Len(str) THEN n ELSE Len(str))

\* sshArgs.join(" ") of part_004 118-137
sshArgs(token, password) ==
    << "-p 443 -R 0:localhost:3000 -o StrictHostKeyChecking=no",
       " -o ServerAliveInterval=30 -o UserKnownHostsFile=/dev/null",
       " -o LogLevel=ERROR -tt " >>
    \o (IF token # << >> /\ password # << >>
        THEN token \o << "@a.pinggy.io" >>
        ELSE << "free.pinggy.io" >>)

\* the lines a start pushes before it waits for the tunnel
StartLines(impl, token, password) ==
    CASE impl = "pinggy_ssh" ->
            IF token # << >> /\ password # << >>
            THEN << << "$ sshpass -p *** ssh " >> \o sshArgs(token, password),
                    << "Connecting to Pinggy..." >>,
                    << "Using Pinggy Pro (token: " >> \o slice(token, 4) \o << "...)" >> >>
            ELSE << << "$ ssh " >> \o sshArgs(token, password),
                    << "Connecting to Pinggy..." >>,
                    << "Using Pinggy Free tier" >> >>
      [] impl = "pinggy_sdk" ->
            << << "$ pinggy.forward({ forwarding: \"localhost:3000\"" >>
               \o (IF token # << >> THEN << ", token: ***" >> ELSE << >>)
               \o << " })" >>,
               << "Connecting to Pinggy..." >> >>
      [] impl = "ngrok" ->
            << << "$ ngrok http 3000" >>
               \o (IF token # << >> THEN << " --authtoken ***" >> ELSE << >>),
               << "Starting ngrok..." >> >>
            \o (IF token # << >> THEN << << "Using authtoken from form" >> >> ELSE << >>)
            \o << << "Waiting for ngrok API..." >> >>
      [] impl = "cf_token" ->
            << << "Mode: Token Tunnel (managed via Dashboard)" >>,
               << "$ cloudflared tunnel run --token ***" >>,
               << "Starting named Cloudflare tunnel with token..." >>,
               << "Note: URL is configured in your Cloudflare Dashboard" >> >>

\* the starts that take a secret; the token tunnel of cloudflare needs one
\* (part_005 268-270)
TakesSecrets == {"pinggy_ssh", "pinggy_sdk", "ngrok", "cf_token"}

\* a start with the given secrets, up to its first await; the call keeps them
\* (history)
StartWith(impl, token, password) ==
    /\ Len(calls) < MaxLogged
    /\ impl = "cf_token" => token # << >>
    /\ calls' = Append(calls, [op |-> "start", impl |-> impl, token |-> token,
                               password |-> password,
                               logs |-> StartLines(impl, token, password)])
    /\ UNCHANGED <<build, now, objs, tunnels, procs, running, scan>>

LogSpec ==
    Init /\ [][\E impl \in TakesSecrets, token \in Tokens, password \in Passwords :
                  StartWith(impl, token, password)]_vars

\* C37 as stated: two starts of the same provider that differ only in the
\* values of the token and of the secondary secret write the same log lines
C37_LogsHideSecrets ==
    \A c1, c2 \in DOMAIN calls :
        (/\ calls[c1].impl = calls[c2].impl
         /\ (calls[c1].token = << >>) <=> (calls[c2].token = << >>)
         /\ (calls[c1].password = << >>) <=> (calls[c2].password = << >>))
        => calls[c1].logs = calls[c2].logs

----------------------------------------------------------------------------
(* A live tunnel whose process or session ends on its own; stop, restart and
   delete are not called.  What is left of a start after it returned: the
   monitorStream of the cloudflare modes (part_005 122, 254, 307 and 654-683)
   and the two handlers of localtunnel (localtunnel.ts 77-90) *)

LiveImpls ==
    {"pinggy_ssh", "pinggy_sdk", "cf_base", "cf_quick", "cf_token", "ngrok",
     "localtunnel"}

\* the starts that leave monitorStream(proc.stderr, tunnel) running
Monitored(impl) == impl \in {"cf_quick", "cf_token"}

\* the handles that are sessions of a library, not child processes
IsSession(impl) == impl \in {"pinggy_sdk", "localtunnel"}

\* the tunnel after create() or restart() returned it live.  lines: the ERR
\* lines the process still writes; event: the event a localtunnel session
\* has emitted and whose handler has not run yet
NewLive(op, impl, lines) ==
    [pc |-> "live", op |-> op, impl |-> impl, status |-> "live", error |-> "",
     alive |-> TRUE, exit |-> "none", lines |-> lines, logged |-> 0,
     monitor |-> IF Monitored(impl) THEN "reading" ELSE "none",
     event |-> "none", logs |-> << >>]

LiveInit ==
    /\ build = [pinggy |-> "unused", cloudflare |-> "unused"]
    /\ now = 0
    /\ objs = << >>
    /\ tunnels = << >>
    /\ procs = << >>
    /\ calls = << >>
    /\ running = 0
    /\ scan \in {NewLive(op, impl, lines) :
                    op \in {"create", "restart"}, impl \in LiveImpls,
                    lines \in 0..MaxErrLines}

\* the child process exits by itself with the given code, or is killed from
\* outside; no code of the providers reads proc.exited of a tunnel process
ProcessExits(code) ==
    /\ scan.pc = "live"
    /\ ~IsSession(scan.impl)
    /\ scan.alive
    /\ scan' = [scan EXCEPT !.alive = FALSE, !.exit = code]
    /\ UNCHANGED <<build, now, objs, tunnels, procs, calls, running>>

\* the session of the library ends: localtunnel emits "close", or "error";
\* the pinggy SDK start registers no handler (part_004 26-48)
SessionEnds(event) ==
    /\ scan.pc = "live"
    /\ IsSession(scan.impl)
    /\ scan.alive
    /\ scan' = [scan EXCEPT !.alive = FALSE, !.exit = event,
                            !.event = IF scan.impl = "localtunnel" THEN event ELSE @]
    /\ UNCHANGED <<build, now, objs, tunnels, procs, calls, running>>

\* monitorStream reads a chunk with an ERR line and logs it (lines 666-675)
MonitorLine ==
    /\ scan.monitor = "reading"
    /\ scan.logged < scan.lines
    /\ scan' = [scan EXCEPT !.logged = @ + 1,
                            !.logs = Append(@, "[cloudflared] ERR")]
    /\ UNCHANGED <<build, now, objs, tunnels, procs, calls, running>>

\* monitorStream reads done after the process ended: break, releaseLock
\* (lines 667 and 679-681); the tunnel is not touched
MonitorDone ==
    /\ scan.monitor = "reading"
    /\ ~scan.alive
    /\ scan.logged = scan.lines
    /\ scan' = [scan EXCEPT !.monitor = "ended"]
    /\ UNCHANGED <<build, now, objs, tunnels, procs, calls, running>>

\* localtunnel's "close" handler, lines 78-83
LtCloseHandler ==
    /\ scan.event = "close"
    /\ scan' = [scan EXCEPT !.event = "none",
                            !.status = IF @ = "live" THEN "closed" ELSE @,
                            !.logs = IF scan.status = "live"
                                     THEN Append(@, "Tunnel closed by server") ELSE @]
    /\ UNCHANGED <<build, now, objs, tunnels, procs, calls, running>>

\* localtunnel's "error" handler, lines 86-90
LtErrorHandler ==
    /\ scan.event = "error"
    /\ scan' = [scan EXCEPT !.event = "none", !.status = "error",
                            !.error = "connection error",
                            !.logs = Append(@, "ERROR: connection error")]
    /\ UNCHANGED <<build, now, objs, tunnels, procs, calls, running>>

LiveNext ==
    \/ \E code \in {"0", "1", "SIGKILL"} : ProcessExits(code)
    \/ \E event \in {"close", "error"} : SessionEnds(event)
    \/ MonitorLine
    \/ MonitorDone
    \/ LtCloseHandler
    \/ LtErrorHandler

\* a chunk in the pipe is read and the handler of an emitted event is run
LiveSpec ==
    /\ LiveInit /\ [][LiveNext]_vars
    /\ WF_vars(MonitorLine)
    /\ WF_vars(MonitorDone)
    /\ WF_vars(LtCloseHandler)
    /\ WF_vars(LtErrorHandler)

\* C38 as stated: when the process or session of a live tunnel has ended on
\* its own, the status of the record eventually leaves live, for every
\* provider
C38_DeadProcessLeavesLive ==
    (~scan.alive) ~> (scan.status # "live")

====
